---- MODULE Spec2Model ----
(***************************************************************************)
(* A model of harmonia: the range stage of the nar handler (src/src/nar.rs) *)
(* and the nix-daemon client (src/harmonia/src/daemon.rs) shared by the     *)
(* request handlers through Store.daemon (src/src/store.rs).                *)
(***************************************************************************)
EXTENDS Integers, Sequences, FiniteSets, TLC

(***************************************************************************)
(* Bounds of the model.                                                     *)
(***************************************************************************)
MaxChunks == 3
MaxChunkLen == 3
NumHandlers == 2
MaxOps == 2
MaxConns == 2
MaxMsgs == 1
MaxCancels == 1
MaxRead == 2           \* most bytes one file.read returns (the buffer holds 16384)
ChannelCapacity == 2   \* chunks a channel holds (1000 in get)
MaxRequests == 3       \* requests the server accepts
MaxPayload == 9        \* longest string framed
MaxRefs == 2           \* most references of a path
MaxBytes == 3          \* longest byte string encoded
MaxHex == 4            \* longest hex string decoded

(***************************************************************************)
(* Program constants (daemon.rs).                                           *)
(***************************************************************************)
WORKER_MAGIC_1 == 1852405859
WORKER_MAGIC_2 == 1685612911
MINIMUM_PROTOCOL_VERSION == 294
CLIENT_VERSION == 294
OpIsValidPath == 1
OpQueryPathInfo == 26
OpQueryPathFromHashPart == 29
MsgWrite == 1684108310
MsgError == 1668838512
MsgNext == 1869376871
MsgStartActivity == 1398035028
MsgStopActivity == 1398034256
MsgResult == 1381190740
MsgLast == 1634497651
\* DaemonConnection.socket = None; sockets are numbered from 1 in dial order
None == 0

VARIABLES
    \* ---- range stage of nar::get ----
    r_prod,      \* chunks dump_path has still to send on tx2 (each a sequence of archive positions)
    r_chan,      \* chunks in flight on the rx2 channel
    r_offset,    \* ranges[0].start
    r_rlength,   \* ranges[0].length
    r_send,      \* the `send` counter of the range task
    r_out,       \* chunks the range task has forwarded on tx (HTTP body)
    r_pc,        \* "run" | "done" | "panic"
    r_rxclosed,  \* the HTTP consumer dropped its receiver
    r_size,      \* info.nar_size
    \* ---- DaemonConnection (Store.daemon) ----
    socket,          \* None or the connection the session holds
    server_features, \* stored after a handshake
    daemon_version,
    is_trusted,
    mutex,           \* 0, or the handler holding the tokio Mutex guard
    \* ---- request handlers (tasks) ----
    pc,          \* "lock" | "send_op" | "write_arg" | "forward_stderr" | "response" | "return"
    op,          \* the operation the handler runs: [code, arg, id]
    hsock,       \* the local `socket` of connect() while it handshakes, else None
    hs,          \* position in handshake(), 0 when not in it
    hsdata,      \* the values handshake() has read so far
    oplog,       \* what the operation has done so far, in order
    acc,         \* response fields read so far
    res,         \* Result of the operation: [st, msg]
    \* ---- the connections and the daemon at their other end ----
    d2c,         \* words the daemon has sent and the client has not read yet
    sent,        \* words the client has written and the daemon has not parsed yet
    dph,         \* daemon side: 0 expects magic, 1 version and flags, 2 features, 3 requests, 4 closed
    nconn,       \* connections dialled so far
    nops,        \* operations started so far
    ncancel,     \* handler futures dropped so far
    \* ---- history ----
    last,        \* how the previous operation on the session ended
    seen,        \* per handler: request ids of the words its operation consumed after the handshake
    used,        \* per handler: connections its operation wrote to or read from
    dialer,      \* per connection: id of the operation that dialled it
    hsdone,      \* per connection: its handshake has completed
    actors,      \* per connection: ids of the operations that acted on it, in order, without repeats
    \* ---- dump_path and the tasks of one nar request ----
    d_macos,     \* the build is for target_os = "macos"
    d_tree,      \* the file system under the dumped path
    d_range,     \* the request has a Range header: [offset, rlength], or <<>>
    d_stack,     \* the `stack` of dump_path
    d_pc,        \* where dump_path is
    d_buf,       \* dump_contents: the bytes of the last file.read, to be sent
    d_left,      \* dump_contents: `left`
    d_tx,        \* chunks in the producer's channel (tx, or tx2 of a range request)
    d_txclosed,  \* the receiver of the producer's channel has been dropped
    d_rsend,     \* range task: `send`
    d_rpc,       \* range task: "off" | "run" | "done" | "panic"
    d_body,      \* range request: chunks in the channel tx to the HTTP body
    d_rxclosed,  \* the HTTP consumer dropped its receiver
    d_sent,      \* history: the chunks dump_path has sent, in order
    d_reads,     \* history: per file path, the bytes the file.read calls have returned
    d_err,       \* the error dump_path returned, "" if none
    d_mark,      \* history: [sent, reads] when the HTTP consumer dropped its receiver, or <<>>
    d_names,     \* history: the entries dump_path has sent, [dir, nar_name, name]
    d_frames,    \* history: the pushes and pops of the stack, [e, path]
    d_rbuf,      \* range task: `data`, received and not yet passed on
    \* ---- string framing and hash encoding, one call ----
    k_fn,        \* the function called
    k_in,        \* its argument
    k_out,       \* the bytes it has written
    k_pc,        \* "call" | "done"
    \* ---- fingerprint_path, one call ----
    f_args,      \* [store_path, nar_hash, nar_size, refs]
    f_res,       \* what the call came to
    f_pc,        \* "call" | "done"
    \* ---- one HTTP request to narinfo::get or nar::get ----
    w_req,       \* the request: [handler, hash, narhash, json, range]
    w_cfg,       \* settings.secret_keys
    w_store,     \* what the daemon answers: [path, info]
    w_resp,      \* the response, <<>> before the handler has returned
    w_spawned,   \* the tasks the handler has spawned
    w_pc,        \* "recv" | "done"
    \* ---- loading the signing keys at startup ----
    c_loader,    \* which config::load runs: "src" (src/config.rs) or "harmonia"
    c_files,     \* the text of each configured key file, in order
    c_keys,      \* settings.secret_keys
    c_st,        \* "load" | "ok" | "err": what load returned
    \* ---- get_nar_list, one call ----
    l_macos,     \* the build is for target_os = "macos"
    l_tree,      \* the file system under the listed path
    l_stack,     \* the `stack` of get_nar_list
    l_root,      \* the NarList returned, <<>> before
    l_pc,        \* "start" | "loop" | "done" | "err"
    \* ---- the handlers nar::get and narinfo::get, one request per task ----
    g_req,       \* per task: the request it serves, [kind, outhash, range], or <<>>
    g_pc,        \* per task: where its handler is
    g_val,       \* per task: what the last daemon operation returned: "" | "none" | "some"
    g_tasks,     \* per task: the tasks its handler has spawned that still run
    g_left,      \* per task: chunks dump_path has still to send
    g_mid,       \* per task: chunks on the channel from dump_path to the range task
    g_body,      \* per task: chunks on the channel to the HTTP body
    g_gone,      \* per task: the HTTP consumer dropped its receiver
    g_nreq       \* requests accepted so far

rangeVars == <<r_prod, r_chan, r_offset, r_rlength, r_send, r_out, r_pc, r_rxclosed, r_size>>
sessionVars == <<socket, server_features, daemon_version, is_trusted>>
handlerVars == <<pc, op, hsock, hs, hsdata, oplog, acc, res>>
wireVars == <<d2c, sent, dph, nconn>>
histVars == <<last, seen, used, dialer, hsdone, actors>>
daemonVars == <<sessionVars, mutex, handlerVars, wireVars, nops, ncancel, histVars>>

dumpVars == <<d_macos, d_tree, d_range, d_stack, d_pc, d_buf, d_left, d_tx, d_txclosed, d_rsend,
              d_rpc, d_body, d_rxclosed, d_sent, d_reads, d_err, d_mark, d_names, d_rbuf,
              d_frames>>
codecVars == <<k_fn, k_in, k_out, k_pc>>
fpVars == <<f_args, f_res, f_pc>>
httpVars == <<w_req, w_cfg, w_store, w_resp, w_spawned, w_pc>>
configVars == <<c_loader, c_files, c_keys, c_st>>
listVars == <<l_macos, l_tree, l_stack, l_root, l_pc>>
requestVars == <<g_req, g_pc, g_val, g_tasks, g_left, g_mid, g_body, g_gone, g_nreq>>

vars == <<rangeVars, daemonVars, dumpVars, codecVars, fpVars, httpVars, configVars, listVars,
          requestVars>>

\* what the actions of one part leave alone
notRange == <<daemonVars, dumpVars, codecVars, fpVars, httpVars, configVars, listVars,
    requestVars>>
notDaemon == <<rangeVars, dumpVars, codecVars, fpVars, httpVars, configVars, listVars,
    requestVars>>
notDump == <<rangeVars, daemonVars, codecVars, fpVars, httpVars, configVars, listVars,
    requestVars>>
notCodec == <<rangeVars, daemonVars, dumpVars, fpVars, httpVars, configVars, listVars,
    requestVars>>
notFingerprint == <<rangeVars, daemonVars, dumpVars, codecVars, httpVars, configVars, listVars,
    requestVars>>
notList ==
    <<rangeVars, daemonVars, dumpVars, codecVars, fpVars, httpVars, configVars,
      requestVars>>
notConfig == <<rangeVars, daemonVars, dumpVars, codecVars, fpVars, httpVars, listVars,
    requestVars>>
notHttp == <<rangeVars, daemonVars, dumpVars, codecVars, fpVars, configVars, listVars,
    requestVars>>
notRequests == <<rangeVars, dumpVars, codecVars, fpVars, httpVars, configVars, listVars>>

Handlers == 1..NumHandlers
Conns == 1..MaxConns

(***************************************************************************)
(* Sequence helpers.                                                        *)
(***************************************************************************)
RECURSIVE Flatten(_)
Flatten(ss) == IF ss = <<>> THEN <<>> ELSE Head(ss) \o Flatten(Tail(ss))

RECURSIVE SumLen(_)
SumLen(ss) == IF ss = <<>> THEN 0 ELSE Len(Head(ss)) + SumLen(Tail(ss))

IsPrefix(s, t) == Len(s) <= Len(t) /\ SubSeq(t, 1, Len(s)) = s

\* The archive as the sequence of its byte positions 0 .. n-1.
Archive(n) == [i \in 1..n |-> i - 1]

\* Cut a list of chunk lengths into chunks of consecutive archive positions.
RECURSIVE Chunked(_, _)
Chunked(lens, from) ==
    IF lens = <<>> THEN <<>>
    ELSE <<[i \in 1..Head(lens) |-> from + i - 1]>> \o Chunked(Tail(lens), from + Head(lens))

RECURSIVE SumSeq(_)
SumSeq(ns) == IF ns = <<>> THEN 0 ELSE Head(ns) + SumSeq(Tail(ns))

ChunkLenSeqs == UNION {[1..k -> 0..MaxChunkLen] : k \in 1..MaxChunks}

(***************************************************************************)
(* Range stage (nar.rs 437-482).                                            *)
(***************************************************************************)
\* nar.rs 455: start of the slice inside the chunk
RangeStart(send, offset) == IF send < offset THEN offset - send ELSE 0

\* nar.rs 456-460: end of the slice inside the chunk
RangeEnd(send, len, offset, rlength) ==
    IF send + len > offset + rlength THEN RangeStart(send, offset) + rlength ELSE len

\* Bytes::slice(start..end) panics unless start <= end <= len
SliceInBounds(data, start, end) == start <= end /\ end <= Len(data)

Slice(data, start, end) == SubSeq(data, start + 1, end)

InitRange ==
    \E lens \in ChunkLenSeqs :
      /\ SumSeq(lens) >= 1
      /\ r_size = SumSeq(lens)
      /\ r_prod = Chunked(lens, 0)
      /\ r_chan = <<>>
      /\ \E o \in 0..(SumSeq(lens) - 1) : \E l \in 1..(SumSeq(lens) - o) :
            r_offset = o /\ r_rlength = l
      /\ r_send = 0
      /\ r_out = <<>>
      /\ r_pc = "run"
      /\ r_rxclosed = FALSE

\* dump_path sends its next chunk on tx2 (nar.rs 445; the channel holds 1000 chunks)
ProducerSend ==
    /\ r_prod # <<>>
    /\ r_pc = "run"
    /\ r_chan' = Append(r_chan, Head(r_prod))
    /\ r_prod' = Tail(r_prod)
    /\ UNCHANGED <<r_offset, r_rlength, r_send, r_out, r_pc, r_rxclosed, r_size>>
    /\ UNCHANGED notRange

\* one iteration of `while let Some(Ok(data)) = rx2.recv().await` (nar.rs 452-481)
RangeRecv ==
    /\ r_pc = "run"
    /\ r_chan # <<>>
    /\ LET data == Head(r_chan)
           len == Len(data)
           start == RangeStart(r_send, r_offset)
           end == RangeEnd(r_send, len, r_offset, r_rlength)
       IN  /\ r_chan' = Tail(r_chan)
           /\ IF r_send + len > r_offset
              THEN IF ~SliceInBounds(data, start, end)
                   THEN /\ r_pc' = "panic"
                        /\ UNCHANGED <<r_out, r_send>>
                   ELSE IF r_rxclosed
                        THEN \* tx.send fails: break
                             /\ r_pc' = "done"
                             /\ UNCHANGED <<r_out, r_send>>
                        ELSE /\ r_out' = Append(r_out, Slice(data, start, end))
                             /\ r_send' = r_send + len
                             /\ r_pc' = "run"
              ELSE /\ r_send' = r_send + len
                   /\ UNCHANGED <<r_out, r_pc>>
    /\ UNCHANGED <<r_prod, r_offset, r_rlength, r_rxclosed, r_size>>
    /\ UNCHANGED notRange

\* rx2.recv() returns None: the producer is finished and the channel is empty
RangeEndOfStream ==
    /\ r_pc = "run"
    /\ r_chan = <<>>
    /\ r_prod = <<>>
    /\ r_pc' = "done"
    /\ UNCHANGED <<r_prod, r_chan, r_offset, r_rlength, r_send, r_out, r_rxclosed, r_size>>
    /\ UNCHANGED notRange

\* the HTTP consumer goes away and drops rx
ConsumerDrop ==
    /\ r_pc = "run"
    /\ ~r_rxclosed
    /\ r_rxclosed' = TRUE
    /\ UNCHANGED <<r_prod, r_chan, r_offset, r_rlength, r_send, r_out, r_pc, r_size>>
    /\ UNCHANGED notRange

NextRange == ProducerSend \/ RangeRecv \/ RangeEndOfStream \/ ConsumerDrop

(***************************************************************************)
(* Wire codec (daemon.rs 260-318).  The socket carries 8-byte words: a u64  *)
(* is one word, a string is its length word and then its bytes padded to    *)
(* whole words.  A word is tagged with the request it belongs to (rq).      *)
(***************************************************************************)
\* m, i, of: the frame the sender put the word in, its place in it, the frame's length
NumW(x, r) == [k |-> "n", n |-> x, p |-> "", rq |-> r, m |-> "", i |-> 0, of |-> 0]
PayW(t, r) == [k |-> "p", n |-> 0, p |-> t, rq |-> r, m |-> "", i |-> 0, of |-> 0]
Frame(ws, name) == [j \in 1..Len(ws) |-> [ws[j] EXCEPT !.m = name, !.i = j, !.of = Len(ws)]]

\* eight bytes of text that are not valid UTF-8
BadUtf8 == "<ff>"

\* eight payload bytes read as a u64: text is no small number and no known tag
\* (2000000000 stands for a value above every tag and every length of the model)
NumOf(w) == IF w.k = "n" THEN w.n ELSE 2000000000

\* eight bytes of a number read as text
TextOf(w) == IF w.k = "p" THEN w.p ELSE "#"

\* daemon.rs 281: padding_size
PaddingSize(len) == (8 - (len % 8)) % 8

\* a faulty variant: the buffer is not aligned to the next multiple of 8
AlignedLenExact(len) == len

\* daemon.rs 292: aligned_len = (len + 7) & !7
AlignedLen(len) == ((len + 7) \div 8) * 8

\* strings of the model: a byte length and the text of each 8-byte group
Str(len, body) == [len |-> len, body |-> body]
EmptyStr == Str(0, <<>>)

\* daemon.rs 260-266: write_num
WriteNum(x, r) == <<NumW(x, r)>>

\* daemon.rs 277-286: write_string
WriteString(s, r) ==
    WriteNum(s.len, r) \o [i \in 1..((s.len + PaddingSize(s.len)) \div 8) |-> PayW(s.body[i], r)]

\* daemon.rs 312-318: write_string_list
RECURSIVE WriteStrings(_, _)
WriteStrings(l, r) == IF l = <<>> THEN <<>> ELSE WriteString(Head(l), r) \o WriteStrings(Tail(l), r)
WriteStringList(l, r) == WriteNum(Len(l), r) \o WriteStrings(l, r)

\* Reads return [st, val, n]: st is "ok", "block" (the words are not there yet)
\* or an error; n is the number of words consumed.
Blocked == [st |-> "block", val |-> 0, n |-> 0]

\* daemon.rs 268-275: read_num
ReadNum(q) == IF Len(q) < 1 THEN Blocked ELSE [st |-> "ok", val |-> NumOf(q[1]), n |-> 1]

\* daemon.rs 288-301: read_string
ReadString(q) ==
    IF Len(q) < 1 THEN Blocked
    ELSE LET len == NumOf(q[1])
             w == AlignedLen(len) \div 8
         IN  IF Len(q) < 1 + w THEN Blocked
             ELSE LET body == [i \in 1..w |-> TextOf(q[1 + i])]
                  IN  IF \E i \in 1..w : body[i] = BadUtf8
                      THEN [st |-> "Failed to parse string", val |-> 0, n |-> 1 + w]
                      ELSE [st |-> "ok", val |-> Str(len, body), n |-> 1 + w]

Drop(q, n) == SubSeq(q, n + 1, Len(q))

\* daemon.rs 303-310: read_string_list (the loop from its k-th string on)
RECURSIVE ReadStrings(_, _, _, _)
\* daemon.rs 307: after the read r of one string of the list, `?` or push and go on
PushString(q, pos, k, got, r) ==
    IF r.st # "ok" THEN [st |-> r.st, val |-> 0, n |-> pos + r.n]
    ELSE ReadStrings(q, pos + r.n, k - 1, Append(got, r.val))

ReadStrings(q, pos, k, got) ==
    IF k = 0 THEN [st |-> "ok", val |-> got, n |-> pos]
    ELSE PushString(q, pos, k, got, ReadString(Drop(q, pos)))

ReadStringList(q) ==
    IF Len(q) < 1 THEN Blocked
    \* every string takes a word at least: a count beyond the words at hand cannot complete
    ELSE IF NumOf(q[1]) > Len(q) - 1 THEN Blocked
    ELSE ReadStrings(q, 1, NumOf(q[1]), <<>>)

ReadOne(t, q) ==
    CASE t = "num" -> ReadNum(q)
      [] t = "str" -> ReadString(q)
      [] t = "list" -> ReadStringList(q)

\* a run of reads, one per field type: [st, vals, n]
RECURSIVE ReadFields(_, _, _, _)
\* after the read r of one field: `?` or keep the value and go on
KeepField(q, pos, types, got, r) ==
    IF r.st # "ok" THEN [st |-> r.st, vals |-> got, n |-> pos + r.n]
    ELSE ReadFields(q, pos + r.n, Tail(types), Append(got, r.val))

ReadFields(q, pos, types, got) ==
    IF types = <<>> THEN [st |-> "ok", vals |-> got, n |-> pos]
    ELSE KeepField(q, pos, types, got, ReadOne(Head(types), Drop(q, pos)))

(***************************************************************************)
(* Logger side-channel (daemon.rs 188-226, 379-458).                        *)
(***************************************************************************)
\* a faulty variant of the conversion: an unknown code ends the drain like Last
MsgTryFromLenient(code) ==
    CASE code = MsgWrite -> "Write"
      [] code = MsgError -> "Error"
      [] code = MsgNext -> "Next"
      [] code = MsgStartActivity -> "StartActivity"
      [] code = MsgStopActivity -> "StopActivity"
      [] code = MsgResult -> "Result"
      [] OTHER -> "Last"

\* daemon.rs 211-226: TryFrom<u64> for Msg
MsgTryFrom(code) ==
    CASE code = MsgWrite -> "Write"
      [] code = MsgError -> "Error"
      [] code = MsgNext -> "Next"
      [] code = MsgStartActivity -> "StartActivity"
      [] code = MsgStopActivity -> "StopActivity"
      [] code = MsgResult -> "Result"
      [] code = MsgLast -> "Last"
      [] OTHER -> "Invalid"

RECURSIVE Repeat(_, _)
Repeat(ts, k) == IF k = 0 THEN <<>> ELSE ts \o Repeat(ts, k - 1)

\* daemon.rs 404: bail!("Daemon error: {}", err.message), after the reads t of the traces
ErrorBail(h, t) ==
    IF t.st # "ok" THEN [st |-> t.st, n |-> t.n, msg |-> EmptyStr]
    ELSE [st |-> "Daemon error", n |-> t.n, msg |-> h.vals[4]]

\* daemon.rs 395-403: traces_len (vals[6]) and the loop over the traces, after the reads h
\* of typ, level, name, message (vals[4]), have_pos
ErrorTraces(q, h) ==
    IF h.st # "ok" THEN [st |-> h.st, n |-> h.n, msg |-> EmptyStr]
    ELSE IF h.vals[6] > Len(q) THEN [st |-> "block", n |-> 0, msg |-> EmptyStr]
    ELSE ErrorBail(h, ReadFields(q, h.n, Repeat(<<"num", "str">>, h.vals[6]), <<>>))

\* a faulty variant of the Error arm: it bails without reading the traces
ReadErrorNoTraces(q) ==
    ErrorBail(ReadFields(q, 1, <<"str", "num", "str", "str", "num", "num">>, <<>>),
              ReadFields(q, 1, <<"str", "num", "str", "str", "num", "num">>, <<>>))

\* daemon.rs 384-405: the Error arm
ReadError(q) ==
    ErrorTraces(q, ReadFields(q, 1, <<"str", "num", "str", "str", "num", "num">>, <<>>))

\* daemon.rs 410-437: the StartActivity arm
Parsed(r) == [st |-> r.st, n |-> r.n, msg |-> EmptyStr]

\* daemon.rs 415-425: the match on the field type (vals[5]), then parent, after the
\* reads h of act, lvl, typ, s and the field type
ActivityFields(q, h) ==
    IF h.st # "ok" THEN Parsed(h)
    ELSE IF h.vals[5] \notin {0, 1} THEN [st |-> "Invalid field type", n |-> h.n, msg |-> EmptyStr]
    ELSE Parsed(ReadFields(q, h.n, <<(IF h.vals[5] = 0 THEN "num" ELSE "str"), "num">>, <<>>))

ReadStartActivity(q) ==
    ActivityFields(q, ReadFields(q, 1, <<"num", "num", "num", "str", "num">>, <<>>))

\* the payload of a message with a single field (Next, StopActivity, Result, Write)
ReadPayload(q, t) == Parsed(ReadFields(q, 1, <<t>>, <<>>))

\* daemon.rs 381-455: one iteration of the loop of forward_stderr.
\* [st, kind, n, msg]: st "ok" goes round the loop again, "last" leaves it.
MatchMsg(kind, q) ==
    CASE kind = "Invalid" -> [st |-> "Invalid Message code", n |-> 1, msg |-> EmptyStr]
      [] kind = "Last" -> [st |-> "last", n |-> 1, msg |-> EmptyStr]
      [] kind = "Error" -> ReadError(q)
      [] kind = "StartActivity" -> ReadStartActivity(q)
      [] kind = "StopActivity" -> ReadPayload(q, "num")
      [] kind \in {"Next", "Result", "Write"} -> ReadPayload(q, "str")

\* nothing is consumed while the words of the message are not all there
Iteration(kind, r) ==
    [st |-> r.st, kind |-> kind, n |-> IF r.st = "block" THEN 0 ELSE r.n, msg |-> r.msg]

ReadMsg(q) ==
    IF Len(q) < 1 THEN [st |-> "block", kind |-> "", n |-> 0, msg |-> EmptyStr]
    ELSE Iteration(MsgTryFrom(NumOf(q[1])), MatchMsg(MsgTryFrom(NumOf(q[1])), q))

(***************************************************************************)
(* The daemon at the other end of a connection, as the client can observe   *)
(* it: it parses what the client has written with the same framing and      *)
(* answers a complete handshake step or request with one of a small set of  *)
(* replies, the well-formed ones and the malformed ones.                    *)
(***************************************************************************)
LogText == Str(3, <<"log">>)
BadText == Str(3, <<BadUtf8>>)
ErrText == Str(9, <<"daemon e", "r">>)
FeatureText == Str(2, <<"f1">>)
VersionText == Str(6, <<"2.24.0">>)
KnownArg == Str(5, <<"known">>)
UnknownArg == Str(9, <<"unknown ", "p">>)
PathText == Str(11, <<"/nix/sto", "re/">>)
DeriverText == Str(4, <<".drv">>)
HashText == Str(8, <<"abcdef01">>)
RefText == Str(3, <<"ref">>)
\* a content-addressed path with two references and a signature
FixedArg == Str(5, <<"fixed">>)
DaemonSigText == Str(5, <<"k:sig">>)
CaText == Str(6, <<"fixed:">>)
Args == {KnownArg, UnknownArg, FixedArg}

\* the messages that do not end the drain, in a fixed round
Templates == <<"Write", "Next", "Result", "StopActivity", "StartInt", "StartStr">>
\* the endings of a drain other than Last
Fatal == {"Error0", "Error1", "Unknown", "BadField", "BadString"}

StartHead(r) ==
    WriteNum(MsgStartActivity, r) \o WriteNum(7, r) \o WriteNum(3, r) \o WriteNum(100, r)
        \o WriteString(LogText, r)

ErrorHead(r) ==
    WriteNum(MsgError, r) \o WriteString(LogText, r) \o WriteNum(0, r) \o WriteString(LogText, r)
        \o WriteString(ErrText, r) \o WriteNum(0, r)

MsgBody(m, r) ==
    CASE m = "Write" -> WriteNum(MsgWrite, r) \o WriteString(LogText, r)
      [] m = "Next" -> WriteNum(MsgNext, r) \o WriteString(LogText, r)
      [] m = "Result" -> WriteNum(MsgResult, r) \o WriteString(LogText, r)
      [] m = "StopActivity" -> WriteNum(MsgStopActivity, r) \o WriteNum(7, r)
      [] m = "StartInt" -> StartHead(r) \o WriteNum(0, r) \o WriteNum(5, r) \o WriteNum(0, r)
      [] m = "StartStr" -> StartHead(r) \o WriteNum(1, r) \o WriteString(LogText, r) \o WriteNum(0, r)
      [] m = "BadField" -> StartHead(r) \o WriteNum(2, r)
      [] m = "Error0" -> ErrorHead(r) \o WriteNum(0, r)
      [] m = "Error1" -> ErrorHead(r) \o WriteNum(1, r) \o WriteNum(0, r) \o WriteString(LogText, r)
      [] m = "Unknown" -> WriteNum(12345, r)
      [] m = "BadString" -> WriteNum(MsgNext, r) \o WriteString(BadText, r)
      [] m = "Last" -> WriteNum(MsgLast, r)

MsgWords(m, r) == Frame(MsgBody(m, r), m)

RECURSIVE MsgsWords(_, _)
MsgsWords(ms, r) == IF ms = <<>> THEN <<>> ELSE MsgWords(Head(ms), r) \o MsgsWords(Tail(ms), r)

\* k messages of the round, from the i-th on
Round(i, k) == [j \in 1..k |-> Templates[((i + j - 2) % Len(Templates)) + 1]]

\* what the daemon puts on the logger channel for one request: up to MaxMsgs
\* messages and Last, or a message that ends the drain with an error
Scripts ==
    {Round(i, k) \o <<"Last">> : i \in 1..Len(Templates), k \in 0..MaxMsgs}
        \cup {<<t>> : t \in Fatal}
HsScripts == {<<"Last">>, <<"Next", "Last">>, <<"Unknown">>, <<"Error0">>}

\* the store the daemon answers from: the response fields of a request
AnswerVals(name, arg) ==
    CASE name = "is_valid_path" -> IF arg = UnknownArg THEN <<0>> ELSE <<1>>
      [] name = "query_path_from_hash_part" -> IF arg = UnknownArg THEN <<EmptyStr>> ELSE <<PathText>>
      [] name = "query_path_info" ->
            IF arg = KnownArg
            THEN <<1, DeriverText, HashText, <<RefText>>, 7, 9, 1, <<>>, EmptyStr>>
            ELSE IF arg = FixedArg
            THEN <<1, EmptyStr, HashText, <<RefText, PathText>>, 8, 9, 0, <<DaemonSigText>>, CaText>>
            ELSE <<0>>

\* daemon.rs 573-576, 595, 620-652: the type of each response field
ResponseTypes(name) ==
    CASE name = "is_valid_path" -> <<"num">>
      [] name = "query_path_from_hash_part" -> <<"str">>
      [] name = "query_path_info" -> <<"num", "str", "str", "list", "num", "num", "num", "list", "str">>

WriteOne(t, v, r) ==
    CASE t = "num" -> WriteNum(v, r)
      [] t = "str" -> WriteString(v, r)
      [] t = "list" -> WriteStringList(v, r)

RECURSIVE WriteFields(_, _, _)
WriteFields(types, vals, r) ==
    IF vals = <<>> THEN <<>>
    ELSE WriteOne(Head(types), Head(vals), r) \o WriteFields(Tail(types), Tail(vals), r)

NameOfCode(code) ==
    CASE code = OpIsValidPath -> "is_valid_path"
      [] code = OpQueryPathInfo -> "query_path_info"
      [] code = OpQueryPathFromHashPart -> "query_path_from_hash_part"
      [] OTHER -> ""

Unmoved(ph) == {[n |-> 0, ph |-> ph, out |-> <<>>]}
Hangup(n) == {[n |-> n, ph |-> 4, out |-> <<>>]}

\* the daemon's possible reactions to the unparsed words q in phase ph
PeerReplies(ph, q) ==
    CASE ph = 0 ->
            LET m == ReadNum(q) IN
            IF m.st # "ok" THEN Unmoved(ph)
            ELSE IF m.val # WORKER_MAGIC_1 THEN Hangup(m.n)
            ELSE {[n |-> m.n, ph |-> 1, out |-> WriteNum(gv[1], q[1].rq) \o WriteNum(gv[2], q[1].rq)] :
                    gv \in {<<WORKER_MAGIC_2, MINIMUM_PROTOCOL_VERSION - 1>>,
                            <<WORKER_MAGIC_2, MINIMUM_PROTOCOL_VERSION>>,
                            <<WORKER_MAGIC_2, MINIMUM_PROTOCOL_VERSION + 1>>,
                            <<WORKER_MAGIC_1, MINIMUM_PROTOCOL_VERSION>>}}
      [] ph = 1 ->
            LET m == ReadFields(q, 0, <<"num", "num", "num">>, <<>>) IN
            IF m.st # "ok" THEN Unmoved(ph)
            ELSE {[n |-> m.n, ph |-> 2, out |-> WriteStringList(<<FeatureText>>, q[1].rq)]}
      [] ph = 2 ->
            LET m == ReadStringList(q) IN
            IF m.st = "block" THEN Unmoved(ph)
            ELSE IF m.st # "ok" THEN Hangup(m.n)
            ELSE {[n |-> m.n, ph |-> 3,
                   out |-> WriteString(VersionText, q[1].rq) \o WriteNum(t, q[1].rq)
                             \o MsgsWords(sc, q[1].rq)] :
                    t \in {0, 1}, sc \in HsScripts}
      [] ph = 3 ->
            LET m == ReadFields(q, 0, <<"num", "str">>, <<>>) IN
            IF m.st = "block" THEN Unmoved(ph)
            ELSE IF m.st # "ok" \/ NameOfCode(m.vals[1]) = "" THEN Hangup(m.n)
            ELSE LET name == NameOfCode(m.vals[1])
                     ans == AnswerVals(name, m.vals[2])
                 IN  {[n |-> m.n, ph |-> 3,
                       out |-> MsgsWords(sc, q[1].rq)
                                 \o IF sc[Len(sc)] = "Last"
                                    THEN Frame(WriteFields(ResponseTypes(name), ans, q[1].rq), name)
                                    ELSE <<>>] :
                        sc \in Scripts}
      [] OTHER -> Unmoved(ph)

(***************************************************************************)
(* The client: DaemonConnection behind Store.daemon, used by the handlers.  *)
(***************************************************************************)
OpSteps == {"send_op", "write_arg", "forward_stderr", "response"}
Methods == {"is_valid_path", "query_path_info", "query_path_from_hash_part"}

\* daemon.rs 563, 585, 609: the opcode each method sends
OpCodeOf(name) ==
    CASE name = "is_valid_path" -> OpIsValidPath
      [] name = "query_path_info" -> OpQueryPathInfo
      [] name = "query_path_from_hash_part" -> OpQueryPathFromHashPart

\* a faulty variant of an operation: the response is read right after the argument
OpNextNoDrain(step) ==
    CASE step = "send_op" -> "write_arg"
      [] step = "write_arg" -> "response"
      [] step = "forward_stderr" -> "response"
      [] step = "response" -> "return"

\* daemon.rs 562-578, 581-605, 608-626: the order of the steps of an operation
OpNext(step) ==
    CASE step = "send_op" -> "write_arg"
      [] step = "write_arg" -> "forward_stderr"
      [] step = "forward_stderr" -> "response"
      [] step = "response" -> "return"

\* a faulty variant of handshake(): the client version is written before the daemon's is read
HandshakeStepsVersionFirst ==
    <<"w_magic1", "r_magic", "w_version", "r_version", "w_affinity", "w_reserve",
      "r_features", "w_features", "r_dversion", "r_trusted", "forward_stderr">>

\* a faulty variant of handshake(): it returns without draining the logger
HandshakeStepsNoDrain ==
    <<"w_magic1", "r_magic", "r_version", "w_version", "w_affinity", "w_reserve",
      "r_features", "w_features", "r_dversion", "r_trusted">>

\* daemon.rs 326-377: the order of the steps of handshake()
HandshakeSteps ==
    <<"w_magic1", "r_magic", "r_version", "w_version", "w_affinity", "w_reserve",
      "r_features", "w_features", "r_dversion", "r_trusted", "forward_stderr">>

\* daemon.rs 327, 343-351, 357: what the writing steps of handshake() write
HsWriteWords(step, r) ==
    CASE step = "w_magic1" -> WriteNum(WORKER_MAGIC_1, r)
      [] step = "w_version" -> WriteNum(CLIENT_VERSION, r)
      [] step = "w_affinity" -> WriteNum(0, r)
      [] step = "w_reserve" -> WriteNum(0, r)
      [] step = "w_features" -> WriteStringList(<<>>, r)

\* daemon.rs 330, 336, 354, 361, 365: what the reading steps of handshake() read
HsReadType(step) ==
    CASE step \in {"r_magic", "r_version", "r_trusted"} -> "num"
      [] step = "r_features" -> "list"
      [] step = "r_dversion" -> "str"

\* daemon.rs 333
MagicOk(magic) == magic = WORKER_MAGIC_2

\* a faulty variant of the version check: the minimum itself is refused
VersionOkStrict(protocol_version) == protocol_version > MINIMUM_PROTOCOL_VERSION

\* daemon.rs 339
VersionOk(protocol_version) == protocol_version >= MINIMUM_PROTOCOL_VERSION

\* daemon.rs 333-341: the checks of handshake() on what it has read
HsCheck(step, val) ==
    CASE step = "r_magic" /\ ~MagicOk(val) -> "Invalid magic number"
      [] step = "r_version" /\ ~VersionOk(val) -> "Protocol version mismatch"
      [] OTHER -> "ok"

\* a faulty variant of the Err arm: the socket is kept
SocketKeptAfterError(s) == s

\* daemon.rs 492, 503, 513, 523, 534, 544: self.socket = None in the Err arm
SocketAfterError(s) == None

\* a faulty variant of connect(): the socket is not stored after the handshake
SocketDroppedAfterHandshake(c) == None

\* daemon.rs 480: self.socket = Some(socket), once handshake() has returned Ok
SocketAfterHandshake(c) == c

\* daemon.rs 624: query_path_info returns early when the path is absent
ResponseDone(name, got) ==
    \/ Len(got) = Len(ResponseTypes(name))
    \/ name = "query_path_info" /\ Len(got) = 1 /\ got[1] = 0

\* a faulty variant of the result of is_valid_path: the test is inverted
IsValidPathInverted(reply) == reply = 0

\* daemon.rs 577: Ok(res != 0)
IsValidPathValue(reply) == reply # 0

\* daemon.rs 595-604: Ok(None) for an empty string, else Ok(Some(resp)); an
\* Option is <<>> or <<value>>
QueryPathFromHashPartValue(resp) == IF resp.len = 0 THEN <<>> ELSE <<resp>>

\* daemon.rs 627-656: ValidPathInfo from the fields read, the content address
\* made None when it is empty
ValidPathInfo(got) ==
    [deriver |-> got[2], hash |-> got[3], references |-> got[4], registration_time |-> got[5],
     nar_size |-> got[6], ultimate |-> got[7] # 0, sigs |-> got[8],
     content_address |-> IF got[9].len = 0 THEN <<>> ELSE <<got[9]>>]

\* a faulty variant of the result of query_path_info: signatures and references swapped
QueryPathInfoSwapped(got) ==
    IF got[1] = 0 THEN <<>>
    ELSE <<[ValidPathInfo(got) EXCEPT !.references = got[8], !.sigs = got[4]]>>

\* daemon.rs 624-626, 658-660: QueryPathInfoResponse { path }
QueryPathInfoValue(got) == IF got[1] = 0 THEN <<>> ELSE <<ValidPathInfo(got)>>

\* what the operation returns in Ok(_), from the response fields it has read
OkValue(name, got) ==
    CASE name = "is_valid_path" -> <<IsValidPathValue(got[1])>>
      [] name = "query_path_from_hash_part" -> <<QueryPathFromHashPartValue(got[1])>>
      [] name = "query_path_info" -> <<QueryPathInfoValue(got)>>

NoOp == [name |-> "", arg |-> EmptyStr, id |-> 0]
NoRes == [st |-> "none", why |-> "", msg |-> EmptyStr, val |-> <<>>]
NoHs == [features |-> <<>>, version |-> EmptyStr, trusted |-> FALSE]

Set(f, h, v) == [f EXCEPT ![h] = v]
Log(h, e, k, w) == oplog' = [oplog EXCEPT ![h] = Append(@, [e |-> e, k |-> k, w |-> w])]
Rqs(ws) == {ws[j].rq : j \in 1..Len(ws)}

InitDaemon ==
    /\ socket = None
    /\ server_features = <<>>
    /\ daemon_version = EmptyStr
    /\ is_trusted = FALSE
    /\ mutex = 0
    /\ pc = [h \in Handlers |-> "lock"]
    /\ op = [h \in Handlers |-> NoOp]
    /\ hsock = [h \in Handlers |-> None]
    /\ hs = [h \in Handlers |-> 0]
    /\ hsdata = [h \in Handlers |-> NoHs]
    /\ oplog = [h \in Handlers |-> <<>>]
    /\ acc = [h \in Handlers |-> <<>>]
    /\ res = [h \in Handlers |-> NoRes]
    /\ d2c = [c \in Conns |-> <<>>]
    /\ sent = [c \in Conns |-> <<>>]
    /\ dph = [c \in Conns |-> 0]
    /\ nconn = 0
    /\ nops = 0
    /\ ncancel = 0
    /\ last = "none"
    /\ seen = [h \in Handlers |-> {}]
    /\ used = [h \in Handlers |-> {}]
    /\ dialer = [c \in Conns |-> 0]
    /\ hsdone = [c \in Conns |-> FALSE]
    /\ actors = [c \in Conns |-> <<>>]

\* the client writes ws on connection c, and the daemon reacts to what it has by then
ClientWrites(c, ws) ==
    \E rep \in PeerReplies(dph[c], sent[c] \o ws) :
        /\ sent' = [sent EXCEPT ![c] = Drop(sent[c] \o ws, rep.n)]
        /\ d2c' = [d2c EXCEPT ![c] = @ \o rep.out]
        /\ dph' = [dph EXCEPT ![c] = rep.ph]

\* the client consumes n words of connection c
ClientReads(c, n) ==
    /\ d2c' = [d2c EXCEPT ![c] = Drop(@, n)]
    /\ UNCHANGED <<sent, dph>>

\* the UnixStream of connection c is dropped
CloseConn(c) ==
    /\ d2c' = [d2c EXCEPT ![c] = <<>>]
    /\ sent' = [sent EXCEPT ![c] = <<>>]
    /\ dph' = [dph EXCEPT ![c] = 4]

\* operation of handler h acts on connection c
Touch(h, c) ==
    /\ used' = [used EXCEPT ![h] = @ \cup {c}]
    /\ actors' = [actors EXCEPT ![c] =
                     IF @ # <<>> /\ @[Len(@)] = op[h].id THEN @ ELSE Append(@, op[h].id)]

\* a faulty variant of the lock: it is granted whether or not a guard is alive
LockAlwaysFree == TRUE

\* store.rs 11: Store.daemon is a tokio Mutex; lock() is granted when no guard is alive
LockFree == mutex = 0

\* a handler waits in `settings.store.daemon.lock().await` (nar.rs 344-348, 368-372;
\* narinfo.rs 44-48); the lock is granted and it calls a method of the session on the guard
Acquire(h) ==
    /\ pc[h] = "lock"
    /\ LockFree
    /\ nops < MaxOps
    /\ nops' = nops + 1
    /\ mutex' = h
    /\ \E name \in Methods, arg \in Args :
          op' = Set(op, h, [name |-> name, arg |-> arg, id |-> nops + 1])
    /\ pc' = Set(pc, h, "send_op")
    /\ UNCHANGED <<sessionVars, hsock, hs, hsdata, oplog, acc, res, wireVars, ncancel, histVars>>
    /\ UNCHANGED notDaemon

\* the handler is inside a method of the session and not inside connect()
InStep(h, step) == pc[h] = step /\ mutex = h /\ hs[h] = 0

\* a faulty variant: the error is recorded but the operation goes on to its next step
ReturnsErrContinues(h, why, msg) ==
    /\ pc' = pc
    /\ res' = Set(res, h, [st |-> "err", why |-> why, msg |-> msg, val |-> <<>>])

\* the operation returns Err to the handler
ReturnsErr(h, why, msg) ==
    /\ pc' = Set(pc, h, "return")
    /\ res' = Set(res, h, [st |-> "err", why |-> why, msg |-> msg, val |-> <<>>])

\* daemon.rs 472-478: connect() finds self.socket None and dials
Connect(h) ==
    /\ pc[h] \in OpSteps
    /\ InStep(h, pc[h])
    /\ socket = None
    /\ \E ok \in BOOLEAN :
          IF ok
          THEN /\ nconn < MaxConns
               /\ nconn' = nconn + 1
               /\ hsock' = Set(hsock, h, nconn + 1)
               /\ hs' = Set(hs, h, 1)
               /\ hsdata' = Set(hsdata, h, NoHs)
               /\ dialer' = [dialer EXCEPT ![nconn + 1] = op[h].id]
               /\ Log(h, "dial", "connect", <<>>)
               /\ UNCHANGED <<pc, res>>
          ELSE /\ ReturnsErr(h, "Failed to reconnect", EmptyStr)
               /\ Log(h, "fail", "Failed to reconnect", <<>>)
               /\ UNCHANGED <<nconn, hsock, hs, hsdata, dialer>>
    /\ UNCHANGED <<sessionVars, mutex, op, acc, d2c, sent, dph, nops, ncancel,
                   last, seen, used, hsdone, actors>>
    /\ UNCHANGED notDaemon

\* handshake() fails: connect() returns the error, its local socket is dropped
HandshakeFails(h, why, msg, w) ==
    /\ CloseConn(hsock[h])
    /\ hsock' = Set(hsock, h, None)
    /\ hs' = Set(hs, h, 0)
    /\ ReturnsErr(h, why, msg)
    /\ Log(h, "fail", why, w)
    /\ UNCHANGED <<sessionVars, hsdata, hsdone>>

\* a step of handshake() has succeeded: on to the next one, or, after the last one,
\* handshake() returns Ok and connect() stores the session (daemon.rs 372-376, 479-484)
HandshakeStepDone(h, c, data) ==
    /\ hsdata' = Set(hsdata, h, data)
    /\ IF hs[h] = Len(HandshakeSteps)
       THEN /\ socket' = SocketAfterHandshake(c)
            /\ server_features' = data.features
            /\ daemon_version' = data.version
            /\ is_trusted' = data.trusted
            /\ hsdone' = [hsdone EXCEPT ![c] = TRUE]
            /\ hsock' = Set(hsock, h, None)
            /\ hs' = Set(hs, h, 0)
       ELSE /\ hs' = Set(hs, h, hs[h] + 1)
            /\ UNCHANGED <<sessionVars, hsock, hsdone>>
    /\ UNCHANGED <<pc, res>>

\* daemon.rs 327, 343-351, 357: a writing step of handshake()
HandshakeWrite(h) ==
    /\ hs[h] > 0
    /\ HandshakeSteps[hs[h]] \in {"w_magic1", "w_version", "w_affinity", "w_reserve", "w_features"}
    /\ LET c == hsock[h]
           step == HandshakeSteps[hs[h]]
           ws == HsWriteWords(step, op[h].id)
       IN  /\ Touch(h, c)
           /\ \E io \in BOOLEAN :
                IF io
                THEN /\ ClientWrites(c, ws)
                     /\ HandshakeStepDone(h, c, hsdata[h])
                     /\ Log(h, "w", step, ws)
                ELSE HandshakeFails(h, "io", EmptyStr, <<>>)
    /\ UNCHANGED <<mutex, op, acc, nconn, nops, ncancel, last, seen, dialer>>
    /\ UNCHANGED notDaemon

\* daemon.rs 330-341, 354, 361, 365: a reading step of handshake()
HandshakeRead(h) ==
    /\ hs[h] > 0
    /\ HandshakeSteps[hs[h]] \in {"r_magic", "r_version", "r_features", "r_dversion", "r_trusted"}
    /\ LET c == hsock[h]
           step == HandshakeSteps[hs[h]]
       IN  /\ Touch(h, c)
           /\ \E io \in BOOLEAN :
                LET r == IF io THEN ReadOne(HsReadType(step), d2c[c]) ELSE [st |-> "io", val |-> 0, n |-> 0]
                    why == IF r.st = "ok" THEN HsCheck(step, r.val) ELSE r.st
                IN  /\ r.st # "block"
                    /\ IF why = "ok"
                       THEN /\ ClientReads(c, r.n)
                            /\ HandshakeStepDone(h, c,
                                   CASE step = "r_features" -> [hsdata[h] EXCEPT !.features = r.val]
                                     [] step = "r_dversion" -> [hsdata[h] EXCEPT !.version = r.val]
                                     [] step = "r_trusted" -> [hsdata[h] EXCEPT !.trusted = (r.val = 1)]
                                     [] OTHER -> hsdata[h])
                            /\ Log(h, "r", step, SubSeq(d2c[c], 1, r.n))
                       ELSE HandshakeFails(h, why, EmptyStr, SubSeq(d2c[c], 1, r.n))
    /\ UNCHANGED <<mutex, op, acc, nconn, nops, ncancel, last, seen, dialer>>
    /\ UNCHANGED notDaemon

\* daemon.rs 370 over 379-458: handshake() drains the logger, one message of the loop
HandshakeDrain(h) ==
    /\ hs[h] > 0
    /\ HandshakeSteps[hs[h]] = "forward_stderr"
    /\ LET c == hsock[h]
       IN  /\ Touch(h, c)
           /\ \E io \in BOOLEAN :
                \E m \in {IF io THEN ReadMsg(d2c[c])
                          ELSE [st |-> "io", kind |-> "", n |-> 0, msg |-> EmptyStr]} :
                    /\ m.st # "block"
                    /\ CASE m.st = "ok" ->
                              /\ ClientReads(c, m.n)
                              /\ Log(h, "msg", m.kind, SubSeq(d2c[c], 1, m.n))
                              /\ UNCHANGED <<sessionVars, pc, res, hsock, hs, hsdata, hsdone>>
                         [] m.st = "last" ->
                              /\ ClientReads(c, m.n)
                              /\ Log(h, "msg", m.kind, SubSeq(d2c[c], 1, m.n))
                              /\ HandshakeStepDone(h, c, hsdata[h])
                         [] OTHER -> HandshakeFails(h, m.st, m.msg, SubSeq(d2c[c], 1, m.n))
    /\ UNCHANGED <<mutex, op, acc, nconn, nops, ncancel, last, seen, dialer>>
    /\ UNCHANGED notDaemon

\* daemon.rs 490-496 etc.: the Err arm of a wrapper, and the `?` of the operation
StepFails(h, why, msg, w) ==
    /\ socket' = SocketAfterError(socket)
    /\ IF SocketAfterError(socket) = None THEN CloseConn(socket) ELSE UNCHANGED <<d2c, sent, dph>>
    /\ ReturnsErr(h, why, msg)
    /\ Log(h, "fail", why, w)
    /\ UNCHANGED <<acc, seen>>

\* daemon.rs 550-553, 488-497: send_op, through self.write_num
SendOp(h) ==
    /\ InStep(h, "send_op")
    /\ socket # None
    /\ Touch(h, socket)
    /\ LET ws == WriteNum(OpCodeOf(op[h].name), op[h].id)
       IN  \E io \in BOOLEAN :
             IF io
             THEN /\ ClientWrites(socket, ws)
                  /\ pc' = Set(pc, h, OpNext("send_op"))
                  /\ Log(h, "w", "opcode", ws)
                  /\ UNCHANGED <<socket, res, acc, seen>>
             ELSE StepFails(h, "io", EmptyStr, <<>>)
    /\ UNCHANGED <<server_features, daemon_version, is_trusted, mutex, op, hsock, hs, hsdata,
                   nconn, nops, ncancel, last, dialer, hsdone>>
    /\ UNCHANGED notDaemon

\* daemon.rs 510-517: self.write_string with the argument of the operation
WriteArg(h) ==
    /\ InStep(h, "write_arg")
    /\ socket # None
    /\ Touch(h, socket)
    /\ LET ws == WriteString(op[h].arg, op[h].id)
       IN  \E io \in BOOLEAN :
             IF io
             THEN /\ ClientWrites(socket, ws)
                  /\ pc' = Set(pc, h, OpNext("write_arg"))
                  /\ Log(h, "w", "arg", ws)
                  /\ UNCHANGED <<socket, res, acc, seen>>
             ELSE StepFails(h, "io", EmptyStr, <<>>)
    /\ UNCHANGED <<server_features, daemon_version, is_trusted, mutex, op, hsock, hs, hsdata,
                   nconn, nops, ncancel, last, dialer, hsdone>>
    /\ UNCHANGED notDaemon

\* daemon.rs 541-548 over 379-458: self.forward_stderr, one message of its loop
ForwardStderr(h) ==
    /\ InStep(h, "forward_stderr")
    /\ socket # None
    /\ Touch(h, socket)
    /\ \E io \in BOOLEAN :
         \E q \in {d2c[socket]} :
         \E m \in {IF io THEN ReadMsg(q) ELSE [st |-> "io", kind |-> "", n |-> 0, msg |-> EmptyStr]} :
             /\ m.st # "block"
             /\ IF m.st \in {"ok", "last"}
                THEN /\ ClientReads(socket, m.n)
                     /\ pc' = Set(pc, h, IF m.st = "last" THEN OpNext("forward_stderr") ELSE pc[h])
                     /\ Log(h, "msg", m.kind, SubSeq(q, 1, m.n))
                     /\ seen' = [seen EXCEPT ![h] = @ \cup Rqs(SubSeq(q, 1, m.n))]
                     /\ UNCHANGED <<socket, res, acc>>
                ELSE StepFails(h, m.st, m.msg, SubSeq(q, 1, m.n))
    /\ UNCHANGED <<server_features, daemon_version, is_trusted, mutex, op, hsock, hs, hsdata,
                   nconn, nops, ncancel, last, dialer, hsdone>>
    /\ UNCHANGED notDaemon

\* daemon.rs 573-577, 595-604, 620-660: the next self.read_* of the response
ReadResponse(h) ==
    /\ InStep(h, "response")
    /\ socket # None
    /\ Touch(h, socket)
    /\ \E io \in BOOLEAN :
         LET q == d2c[socket]
             t == ResponseTypes(op[h].name)[Len(acc[h]) + 1]
             r == IF io THEN ReadOne(t, q) ELSE [st |-> "io", val |-> 0, n |-> 0]
         IN  /\ r.st # "block"
             /\ IF r.st = "ok"
                THEN /\ ClientReads(socket, r.n)
                     /\ acc' = [acc EXCEPT ![h] = Append(@, r.val)]
                     /\ Log(h, "r", "response", SubSeq(q, 1, r.n))
                     /\ seen' = [seen EXCEPT ![h] = @ \cup Rqs(SubSeq(q, 1, r.n))]
                     /\ IF ResponseDone(op[h].name, Append(acc[h], r.val))
                        THEN /\ pc' = Set(pc, h, OpNext("response"))
                             /\ res' = Set(res, h, [st |-> "ok", why |-> "", msg |-> EmptyStr,
                                                     val |-> OkValue(op[h].name,
                                                                     Append(acc[h], r.val))])
                        ELSE UNCHANGED <<pc, res>>
                     /\ UNCHANGED socket
                ELSE StepFails(h, r.st, EmptyStr, SubSeq(q, 1, r.n))
    /\ UNCHANGED <<server_features, daemon_version, is_trusted, mutex, op, hsock, hs, hsdata,
                   nconn, nops, ncancel, last, dialer, hsdone>>
    /\ UNCHANGED notDaemon

\* the statement holding the guard ends: the guard is dropped (nar.rs 357, 383; narinfo.rs 57)
Release(h) ==
    /\ pc[h] = "return"
    /\ mutex = h
    /\ mutex' = 0
    /\ last' = res[h].st
    /\ pc' = Set(pc, h, "lock")
    /\ op' = Set(op, h, NoOp)
    /\ oplog' = Set(oplog, h, <<>>)
    /\ acc' = Set(acc, h, <<>>)
    /\ res' = Set(res, h, NoRes)
    /\ seen' = Set(seen, h, {})
    /\ used' = Set(used, h, {})
    /\ UNCHANGED <<sessionVars, hsock, hs, hsdata, wireVars, nops, ncancel, dialer, hsdone, actors>>
    /\ UNCHANGED notDaemon

\* the handler's future is dropped at an await point (client disconnect, request timeout):
\* its locals are dropped, the guard among them; nothing else runs
Cancel(h) ==
    /\ pc[h] \in OpSteps
    /\ mutex = h
    /\ ncancel < MaxCancels
    /\ ncancel' = ncancel + 1
    /\ mutex' = 0
    /\ last' = IF \E j \in 1..Len(oplog[h]) : oplog[h][j].k = "opcode" THEN "cancel_mid" ELSE "cancel"
    /\ IF hsock[h] # None THEN CloseConn(hsock[h]) ELSE UNCHANGED <<d2c, sent, dph>>
    /\ pc' = Set(pc, h, "lock")
    /\ op' = Set(op, h, NoOp)
    /\ hsock' = Set(hsock, h, None)
    /\ hs' = Set(hs, h, 0)
    /\ hsdata' = Set(hsdata, h, NoHs)
    /\ oplog' = Set(oplog, h, <<>>)
    /\ acc' = Set(acc, h, <<>>)
    /\ res' = Set(res, h, NoRes)
    /\ seen' = Set(seen, h, {})
    /\ used' = Set(used, h, {})
    /\ UNCHANGED <<sessionVars, nconn, nops, dialer, hsdone, actors>>
    /\ UNCHANGED notDaemon

(***************************************************************************)
(* Archive serializer (nar.rs).  Chunks, names and tokens are sequences of  *)
(* bytes.                                                                   *)
(***************************************************************************)
\* the byte-string literals of nar.rs
Tok ==
    [ archive    |-> <<110, 105, 120, 45, 97, 114, 99, 104, 105, 118, 101, 45, 49>>,  \* b"nix-archive-1"
      open       |-> <<40>>,                                                  \* b"("
      close      |-> <<41>>,                                                  \* b")"
      type       |-> <<116, 121, 112, 101>>,                                  \* b"type"
      regular    |-> <<114, 101, 103, 117, 108, 97, 114>>,                    \* b"regular"
      executable |-> <<101, 120, 101, 99, 117, 116, 97, 98, 108, 101>>,       \* b"executable"
      empty      |-> <<>>,                                                    \* b""
      contents   |-> <<99, 111, 110, 116, 101, 110, 116, 115>>,               \* b"contents"
      symlink    |-> <<115, 121, 109, 108, 105, 110, 107>>,                   \* b"symlink"
      target     |-> <<116, 97, 114, 103, 101, 116>>,                         \* b"target"
      directory  |-> <<100, 105, 114, 101, 99, 116, 111, 114, 121>>,          \* b"directory"
      entry      |-> <<101, 110, 116, 114, 121>>,                             \* b"entry"
      name       |-> <<110, 97, 109, 101>>,                                   \* b"name"
      node       |-> <<110, 111, 100, 101>> ]                                 \* b"node"
needle == <<126, 110, 105, 120, 126, 99, 97, 115, 101, 126, 104, 97, 99, 107, 126>>  \* b"~nix~case~hack~"

Zeros(n) == [i \in 1..n |-> 0]

\* u64::to_le_bytes
ToLeBytes(n) == <<n % 256, (n \div 256) % 256, (n \div 65536) % 256, (n \div 16777216) % 256, 0, 0, 0, 0>>

alignmentNoWrap(size) == 8 - (size % 8)

alignment(size) == IF 8 - (size % 8) = 8 THEN 0 ELSE 8 - (size % 8)

\* write_byte_slices: the chunk it builds from its slices
RECURSIVE ByteSlices(_)
ByteSlices(slices) ==
    IF slices = <<>> THEN <<>>
    ELSE ToLeBytes(Len(Head(slices))) \o Head(slices) \o Zeros(alignment(Len(Head(slices))))
         \o ByteSlices(Tail(slices))

\* the order of byte strings (Ord of OsString)
RECURSIVE BytesLess(_, _)
BytesLess(a, b) ==
    IF b = <<>> THEN FALSE
    ELSE IF a = <<>> THEN TRUE
    ELSE IF Head(a) # Head(b) THEN Head(a) < Head(b)
    ELSE BytesLess(Tail(a), Tail(b))

\* positions at which a window of s equals the needle
NeedleAt(s) == {pos \in 0..(Len(s) - Len(needle)) : SubSeq(s, pos + 1, pos + Len(needle)) = needle}

Least(ns) == CHOOSE n \in ns : \A m \in ns : n <= m

strip_case_hack_suffix(macos, s) ==
    IF macos /\ NeedleAt(s) # {} THEN SubSeq(s, 1, Least(NeedleAt(s))) ELSE s

\* BTreeMap<OsString, OsString> as the sequence of its <<key, value>> pairs in key order
MapInsert(map, key, value) ==
    SelectSeq(map, LAMBDA e : BytesLess(e[1], key)) \o <<<<key, value>>>>
        \o SelectSeq(map, LAMBDA e : BytesLess(key, e[1]))

\* the loop of Frame::new over the entries read_dir yields, in the order it yields them
RECURSIVE Entries(_, _)
Entries(macos, file_names) ==
    IF file_names = <<>> THEN <<>>
    ELSE MapInsert(Entries(macos, SubSeq(file_names, 1, Len(file_names) - 1)),
                   strip_case_hack_suffix(macos, file_names[Len(file_names)]),
                   file_names[Len(file_names)])

\* a file-system object: what symlink_metadata, read_link and read_dir tell of it
IsDir(node) == node.type = "directory"
IsFile(node) == node.type = "regular"
IsSymlink(node) == node.type = "symlink"
Executable(node) == (node.mode \div 64) % 2 # 0     \* mode & 0o100 != 0

\* the orders in which read_dir can yield a set of names
Orders(names) ==
    {o \in [1..Cardinality(names) -> names] : \A i, j \in 1..Cardinality(names) : i # j => o[i] # o[j]}

\* Frame::new, read_dir yielding the names in the order `order`
FrameNew(macos, path, node, order) ==
    [path |-> path,
     node |-> node,
     children |-> IF IsDir(node) /\ Entries(macos, order) # <<>>
                  THEN [some |-> TRUE, map |-> Entries(macos, order)]
                  ELSE [some |-> FALSE, map |-> <<>>],
     first_child |-> TRUE]

\* ---- the file systems and requests considered ----
File(mode, len) == [type |-> "regular", mode |-> mode, len |-> len, target |-> <<>>, entries |-> <<>>]
Symlink(target) == [type |-> "symlink", mode |-> 511, len |-> 0, target |-> target, entries |-> <<>>]
Fifo == [type |-> "fifo", mode |-> 420, len |-> 0, target |-> <<>>, entries |-> <<>>]
Dir(entries) == [type |-> "directory", mode |-> 493, len |-> 0, target |-> <<>>, entries |-> entries]

NameA == <<97>>                             \* "a"
NameB == <<98>>                             \* "b"
NameUpperB == <<66>>                        \* "B"
NameBa == <<98, 97>>                        \* "ba"
NameHackB == <<98>> \o needle \o <<49>>     \* "b~nix~case~hack~1"
NoEntries == [n \in {} |-> Fifo]

Trees ==
    { File(420, 0), File(493, 2), Symlink(NameA), Dir(NoEntries), Fifo,
      Dir([n \in {NameA, NameUpperB} |-> IF n = NameA THEN File(420, 1) ELSE Dir(NoEntries)]),
      Dir([n \in {NameA, NameB} |->
              IF n = NameA THEN File(493, 0) ELSE Dir([m \in {NameA} |-> Symlink(NameB)])]),
      Dir([n \in {NameHackB, NameBa} |-> IF n = NameBa THEN Symlink(NameA) ELSE File(420, 1)]),
      Dir([n \in {NameB, NameHackB} |-> IF n = NameB THEN File(420, 1) ELSE Symlink(NameA)]) }

\* no Range header, or <<offset, rlength>> of the first range
Ranges == {<<>>, <<0, 8>>, <<40, 16>>}

\* byte i (from 1) of a file's data
FileByte(i) == 100 + i

InitDump ==
    /\ d_macos \in BOOLEAN
    /\ d_tree \in Trees
    /\ d_range \in Ranges
    /\ d_stack = <<>>
    /\ d_pc = "start"
    /\ d_buf = <<>>
    /\ d_left = 0
    /\ d_tx = <<>>
    /\ d_txclosed = FALSE
    /\ d_rsend = 0
    /\ d_rpc = IF d_range = <<>> THEN "off" ELSE "recv"
    /\ d_rbuf = <<>>
    /\ d_body = <<>>
    /\ d_rxclosed = FALSE
    /\ d_sent = <<>>
    /\ d_reads = <<>>
    /\ d_names = <<>>
    /\ d_frames = <<>>
    /\ d_err = ""
    /\ d_mark = <<>>

\* ---- the producer: dump_path and what it calls ----
\* mpsc::channel(1000): a send completes when the channel holds fewer chunks than its capacity
HasRoomAlways(channel) == TRUE

HasRoom(channel) == Len(channel) < ChannelCapacity

\* what stack.push and stack.pop have done between two stacks
StackEvents(old, new) ==
    IF Len(new) > Len(old) THEN <<[e |-> "push", path |-> new[Len(new)].path]>>
    ELSE IF Len(new) < Len(old) THEN <<[e |-> "pop", path |-> old[Len(old)].path]>>
    ELSE <<>>

\* tx.send(chunk).await? with what follows it when it succeeds: the stack
\* stack_ok and the place pc_ok, with the error err_ok when that place is "failed"
SendingThen(chunk, pc_ok, stack_ok, err_ok) ==
    \/ /\ d_txclosed
       /\ d_err' = "Failed to send"
       /\ d_pc' = "failed"
       /\ UNCHANGED <<d_tx, d_sent, d_stack, d_frames>>
    \/ /\ ~d_txclosed
       /\ HasRoom(d_tx)
       /\ d_tx' = Append(d_tx, chunk)
       /\ d_sent' = Append(d_sent, chunk)
       /\ d_pc' = pc_ok
       /\ d_stack' = stack_ok
       /\ d_frames' = d_frames \o StackEvents(d_stack, stack_ok)
       /\ d_err' = err_ok

Sending(chunk, pc_ok, stack_ok) == SendingThen(chunk, pc_ok, stack_ok, d_err)

Top == d_stack[Len(d_stack)]
Popped == SubSeq(d_stack, 1, Len(d_stack) - 1)
DirNames(node) == IF IsDir(node) THEN DOMAIN node.entries ELSE {}
ProducerGone == d_pc \in {"done", "failed"}
consumerVars == <<d_rsend, d_rpc, d_rbuf, d_body, d_rxclosed, d_mark>>
fixedVars == <<d_macos, d_tree, d_range>>

\* Frame::new fails: symlink_metadata, read_dir or next_entry returns an error
FrameFails == "Failed to get metadata or to read directory"

DumpStart ==
    /\ d_pc = "start"
    /\ \/ \E order \in Orders(DirNames(d_tree)) :
             Sending(ByteSlices(<<Tok.archive>>), "loop", <<FrameNew(d_macos, <<>>, d_tree, order)>>)
       \/ SendingThen(ByteSlices(<<Tok.archive>>), "failed", <<>>, FrameFails)
    /\ UNCHANGED <<fixedVars, consumerVars, d_buf, d_left, d_txclosed, d_reads, d_names, notDump>>

DirBegin ==
    /\ d_pc = "loop" /\ d_stack # <<>>
    /\ IsDir(Top.node) /\ Top.first_child
    /\ Sending(ByteSlices(<<Tok.open, Tok.type, Tok.directory>>), "opened", d_stack)
    /\ UNCHANGED <<fixedVars, consumerVars, d_buf, d_left, d_txclosed, d_reads, d_names, notDump>>

EndEmptyDirectory ==
    /\ d_pc = "opened"
    /\ ~Top.children.some
    /\ Sending(ByteSlices(<<Tok.close>>), "loop", Popped)
    /\ UNCHANGED <<fixedVars, consumerVars, d_buf, d_left, d_txclosed, d_reads, d_names, notDump>>

\* a faulty variant: the entry is ended with "(" in place of ")"
EndEntryOpens ==
    /\ d_pc = "loop" /\ d_stack # <<>>
    /\ IsDir(Top.node) /\ ~Top.first_child
    /\ Sending(ByteSlices(<<Tok.open>>), "entry", d_stack)
    /\ UNCHANGED <<fixedVars, consumerVars, d_buf, d_left, d_txclosed, d_reads, d_names, notDump>>

EndEntry ==
    /\ d_pc = "loop" /\ d_stack # <<>>
    /\ IsDir(Top.node) /\ ~Top.first_child
    /\ Sending(ByteSlices(<<Tok.close>>), "entry", d_stack)
    /\ UNCHANGED <<fixedVars, consumerVars, d_buf, d_left, d_txclosed, d_reads, d_names, notDump>>

\* pop_first, the entry's header, and the child's frame
Entry ==
    /\ d_pc \in {"opened", "entry"}
    /\ Top.children.some /\ Top.children.map # <<>>
    /\ \E e \in {Head(Top.children.map)} :
          /\ \/ \E order \in Orders(DirNames(Top.node.entries[e[2]])) :
                   Sending(ByteSlices(<<Tok.entry, Tok.open, Tok.name, e[1], Tok.node>>), "loop",
                           Append(Popped, [Top EXCEPT !.first_child = FALSE,
                                                      !.children.map = Tail(Top.children.map)])
                               \o <<FrameNew(d_macos, Append(Top.path, e[2]),
                                              Top.node.entries[e[2]], order)>>)
             \/ SendingThen(ByteSlices(<<Tok.entry, Tok.open, Tok.name, e[1], Tok.node>>), "failed",
                            Append(Popped, [Top EXCEPT !.first_child = FALSE,
                                                       !.children.map = Tail(Top.children.map)]),
                            FrameFails)
          /\ d_names' = IF d_txclosed THEN d_names
                        ELSE Append(d_names, [dir |-> Top.path, nar_name |-> e[1], name |-> e[2]])
    /\ UNCHANGED <<fixedVars, consumerVars, d_buf, d_left, d_txclosed, d_reads, notDump>>

EndDirectory ==
    /\ d_pc = "entry"
    /\ Top.children.map = <<>>
    /\ Sending(ByteSlices(<<Tok.close>>), "loop", Popped)
    /\ UNCHANGED <<fixedVars, consumerVars, d_buf, d_left, d_txclosed, d_reads, d_names, notDump>>

FileBegin ==
    /\ d_pc = "loop" /\ d_stack # <<>>
    /\ IsFile(Top.node)
    /\ Sending(IF Executable(Top.node)
               THEN ByteSlices(<<Tok.open, Tok.type, Tok.regular, Tok.executable, Tok.empty, Tok.contents>>)
               ELSE ByteSlices(<<Tok.open, Tok.type, Tok.regular, Tok.contents>>),
               "size", d_stack)
    /\ UNCHANGED <<fixedVars, consumerVars, d_buf, d_left, d_txclosed, d_reads, d_names, notDump>>

FileSize ==
    /\ d_pc = "size"
    /\ Sending(ToLeBytes(Top.node.len), "read", d_stack)
    /\ d_left' = Top.node.len
    /\ UNCHANGED <<fixedVars, consumerVars, d_buf, d_txclosed, d_reads, d_names, notDump>>

\* nar.rs 148: n as u64 > left
ReadsTooMuchIgnored(n, left) == FALSE

ReadsTooMuch(n, left) == n > left

\* file.read(&mut buf) and the checks on its result
ReadFile ==
    /\ d_pc = "read"
    /\ \E n \in -1..MaxRead :
          /\ d_reads' = Append(d_reads, [path |-> Top.path, n |-> n])
          /\ IF n = -1
             THEN d_err' = "Failed to read file" /\ d_pc' = "failed" /\ UNCHANGED <<d_buf, d_left>>
             ELSE IF n = 0 /\ d_left # 0
             THEN d_err' = "Unexpected end of file" /\ d_pc' = "failed" /\ UNCHANGED <<d_buf, d_left>>
             ELSE IF n = 0
             THEN d_buf' = Zeros(n + alignment(Top.node.len)) /\ d_pc' = "padding"
                  /\ UNCHANGED <<d_err, d_left>>
             ELSE IF ReadsTooMuch(n, d_left)
             THEN d_err' = "Read more bytes than expected" /\ d_pc' = "failed"
                  /\ UNCHANGED <<d_buf, d_left>>
             ELSE /\ d_left' = d_left - n
                  /\ d_buf' = [i \in 1..n |-> FileByte(Top.node.len - d_left + i)]
                  /\ d_pc' = "contents"
                  /\ UNCHANGED d_err
    /\ UNCHANGED <<fixedVars, consumerVars, d_stack, d_tx, d_txclosed, d_sent, d_names, d_frames,
                   notDump>>

SendContents ==
    /\ d_pc = "contents"
    /\ Sending(d_buf, "read", d_stack)
    /\ UNCHANGED <<fixedVars, consumerVars, d_buf, d_left, d_txclosed, d_reads, d_names, notDump>>

SendPadding ==
    /\ d_pc = "padding"
    /\ Sending(d_buf, "close", d_stack)
    /\ UNCHANGED <<fixedVars, consumerVars, d_buf, d_left, d_txclosed, d_reads, d_names, notDump>>

FileEnd ==
    /\ d_pc = "close"
    /\ Sending(ByteSlices(<<Tok.close>>), "loop", Popped)
    /\ UNCHANGED <<fixedVars, consumerVars, d_buf, d_left, d_txclosed, d_reads, d_names, notDump>>

\* dump_symlink: fs::read_link, which can fail
ReadLink ==
    /\ d_pc = "loop" /\ d_stack # <<>>
    /\ IsSymlink(Top.node)
    /\ \/ d_pc' = "link" /\ UNCHANGED d_err
       \/ d_pc' = "failed" /\ d_err' = "Failed to read link target"
    /\ UNCHANGED <<fixedVars, consumerVars, d_stack, d_buf, d_left, d_tx, d_txclosed, d_sent,
                   d_reads, d_names, d_frames, notDump>>

DumpSymlink ==
    /\ d_pc = "link"
    /\ Sending(ByteSlices(<<Tok.open, Tok.type, Tok.symlink, Tok.target, Top.node.target, Tok.close>>),
               "loop", Popped)
    /\ UNCHANGED <<fixedVars, consumerVars, d_buf, d_left, d_txclosed, d_reads, d_names, notDump>>

Unsupported ==
    /\ d_pc = "loop" /\ d_stack # <<>>
    /\ ~IsDir(Top.node) /\ ~IsFile(Top.node) /\ ~IsSymlink(Top.node)
    /\ d_err' = "Unsupported file type"
    /\ d_pc' = "failed"
    /\ UNCHANGED <<fixedVars, consumerVars, d_stack, d_buf, d_left, d_tx, d_txclosed, d_sent,
                   d_reads, d_names, d_frames, notDump>>

DumpReturn ==
    /\ d_pc = "loop" /\ d_stack = <<>>
    /\ d_pc' = "done"
    /\ UNCHANGED <<fixedVars, consumerVars, d_stack, d_buf, d_left, d_tx, d_txclosed, d_sent,
                   d_reads, d_names, d_frames, d_err, notDump>>

\* ---- the range task of get ----
producerVars == <<d_stack, d_pc, d_buf, d_left, d_sent, d_reads, d_names, d_frames, d_err>>

RangeTaskRecv ==
    /\ d_rpc = "recv"
    /\ d_tx # <<>>
    /\ d_tx' = Tail(d_tx)
    /\ IF d_rsend + Len(Head(d_tx)) > d_range[1]
       THEN /\ d_rbuf' = Head(d_tx)
            /\ d_rpc' = "send"
            /\ UNCHANGED d_rsend
       ELSE /\ d_rsend' = d_rsend + Len(Head(d_tx))
            /\ UNCHANGED <<d_rbuf, d_rpc>>
    /\ UNCHANGED <<fixedVars, producerVars, d_txclosed, d_body, d_rxclosed, d_mark, notDump>>

\* data.slice(start..end), then tx.send
RangeTaskSend ==
    /\ d_rpc = "send"
    /\ \E start \in {RangeStart(d_rsend, d_range[1])} :
       \E end \in {RangeEnd(d_rsend, Len(d_rbuf), d_range[1], d_range[2])} :
          IF ~SliceInBounds(d_rbuf, start, end)
          THEN /\ d_rpc' = "panic"
               /\ d_txclosed' = TRUE
               /\ d_tx' = <<>>
               /\ UNCHANGED <<d_body, d_rsend>>
          ELSE IF d_rxclosed
          THEN /\ d_rpc' = "done"
               /\ d_txclosed' = TRUE
               /\ d_tx' = <<>>
               /\ UNCHANGED <<d_body, d_rsend>>
          ELSE /\ HasRoom(d_body)
               /\ d_body' = Append(d_body, Slice(d_rbuf, start, end))
               /\ d_rsend' = d_rsend + Len(d_rbuf)
               /\ d_rpc' = "recv"
               /\ UNCHANGED <<d_tx, d_txclosed>>
    /\ d_rbuf' = <<>>
    /\ UNCHANGED <<fixedVars, producerVars, d_rxclosed, d_mark, notDump>>

\* rx2.recv() returns None: the producer has returned and its chunks are consumed
RangeTaskEnd ==
    /\ d_rpc = "recv"
    /\ d_tx = <<>> /\ ProducerGone
    /\ d_rpc' = "done"
    /\ UNCHANGED <<fixedVars, producerVars, d_tx, d_txclosed, d_rsend, d_rbuf, d_body, d_rxclosed,
                   d_mark, notDump>>

\* ---- the HTTP body (SizedStream over rx) ----
BodyRecv ==
    /\ ~d_rxclosed
    /\ IF d_range = <<>>
       THEN d_tx # <<>> /\ d_tx' = Tail(d_tx) /\ UNCHANGED d_body
       ELSE d_body # <<>> /\ d_body' = Tail(d_body) /\ UNCHANGED d_tx
    /\ UNCHANGED <<fixedVars, producerVars, d_txclosed, d_rsend, d_rpc, d_rbuf, d_rxclosed, d_mark,
                   notDump>>

\* the client goes away: the body and its receiver are dropped
BodyDrop ==
    /\ ~d_rxclosed
    /\ d_rxclosed' = TRUE
    /\ d_mark' = [sent |-> Len(d_sent), reads |-> Len(d_reads)]
    /\ IF d_range = <<>>
       THEN d_txclosed' = TRUE /\ d_tx' = <<>> /\ UNCHANGED d_body
       ELSE d_body' = <<>> /\ UNCHANGED <<d_tx, d_txclosed>>
    /\ UNCHANGED <<fixedVars, producerVars, d_rsend, d_rpc, d_rbuf, notDump>>

NextDump ==
    \/ DumpStart \/ DirBegin \/ EndEmptyDirectory \/ EndEntry \/ Entry \/ EndDirectory
    \/ FileBegin \/ FileSize \/ ReadFile \/ SendContents \/ SendPadding \/ FileEnd
    \/ ReadLink \/ DumpSymlink \/ Unsupported \/ DumpReturn
    \/ RangeTaskRecv \/ RangeTaskSend \/ RangeTaskEnd
    \/ BodyRecv \/ BodyDrop

(***************************************************************************)
(* String framing, byte for byte: write_string of daemon.rs,                *)
(* write_byte_slices and the contents block of a file of nar.rs.            *)
(***************************************************************************)
\* daemon.rs 277-286: the bytes write_string writes for the bytes s of a string
WriteStringBytes(s) ==
    ToLeBytes(Len(s)) \o s
        \o (IF PaddingSize(Len(s)) > 0 THEN SubSeq(Zeros(8), 1, PaddingSize(Len(s))) ELSE <<>>)

\* nar.rs 242, 141-160: the size, the bytes read and the padding sent for a file
ContentsBlock(data) == ToLeBytes(Len(data)) \o data \o Zeros(0 + alignment(Len(data)))

Payload(len) == [i \in 1..len |-> FileByte(i)]
Payloads == {Payload(len) : len \in 0..MaxPayload}
SliceLists == {<<p>> : p \in Payloads} \cup {<<p, q>> : p \in Payloads, q \in Payloads}

InitCodec ==
    /\ k_fn = ""
    /\ k_in \in SliceLists
    /\ k_out = <<>>
    /\ k_pc = "call"


CallWriteString ==
    /\ k_pc = "call" /\ Len(k_in) = 1
    /\ k_fn' = "write_string"
    /\ k_out' = WriteStringBytes(k_in[1])
    /\ k_pc' = "done"
    /\ UNCHANGED <<k_in, notCodec>>

CallWriteByteSlices ==
    /\ k_pc = "call"
    /\ k_fn' = "write_byte_slices"
    /\ k_out' = ByteSlices(k_in)
    /\ k_pc' = "done"
    /\ UNCHANGED <<k_in, notCodec>>

CallDumpContents ==
    /\ k_pc = "call" /\ Len(k_in) = 1
    /\ k_fn' = "dump_contents"
    /\ k_out' = ContentsBlock(k_in[1])
    /\ k_pc' = "done"
    /\ UNCHANGED <<k_in, notCodec>>

NextCodec == CallWriteString \/ CallWriteByteSlices \/ CallDumpContents

(***************************************************************************)
(* The wire codec of the daemon client, byte by byte (daemon.rs 260-318).   *)
(* A stream is a sequence of bytes; a read returns [st, val, n] with n the  *)
(* bytes it has consumed.                                                   *)
(***************************************************************************)
\* u64::from_le_bytes, for values below 2^31
from_le_bytes(buf) == buf[1] + 256 * buf[2] + 65536 * buf[3] + 16777216 * buf[4]

\* str::from_utf8 accepts the bytes from position i on: one-byte, two-byte and
\* three-byte sequences (lead bytes E1..EC of the three-byte form)
RECURSIVE Utf8From(_, _)
Utf8From(b, i) ==
    IF i > Len(b) THEN TRUE
    ELSE IF b[i] < 128 THEN Utf8From(b, i + 1)
    ELSE IF b[i] \in 194..223
    THEN i + 1 <= Len(b) /\ b[i + 1] \in 128..191 /\ Utf8From(b, i + 2)
    ELSE IF b[i] \in 225..236
    THEN i + 2 <= Len(b) /\ b[i + 1] \in 128..191 /\ b[i + 2] \in 128..191 /\ Utf8From(b, i + 3)
    ELSE FALSE

\* socket.read_exact on a stream that ends early
Eof(n) == [st |-> "io", val |-> 0, n |-> n]

\* daemon.rs 260-266
write_num(num) == ToLeBytes(num)

\* daemon.rs 268-275
read_num(b) ==
    IF Len(b) < 8 THEN Eof(Len(b))
    ELSE [st |-> "ok", val |-> from_le_bytes(SubSeq(b, 1, 8)), n |-> 8]

\* daemon.rs 288-301: the buffer of aligned_len bytes and the text in its first len bytes
ReadText(b, len) ==
    IF Len(b) < 8 + AlignedLen(len) THEN Eof(Len(b))
    ELSE IF ~Utf8From(SubSeq(b, 9, 8 + len), 1)
    THEN [st |-> "Failed to parse string", val |-> 0, n |-> 8 + AlignedLen(len)]
    ELSE [st |-> "ok", val |-> SubSeq(b, 9, 8 + len), n |-> 8 + AlignedLen(len)]

read_string(b) == IF read_num(b).st # "ok" THEN read_num(b) ELSE ReadText(b, read_num(b).val)

\* daemon.rs 303-310: the loop with k strings still to read, from offset pos
RECURSIVE ReadListFrom(_, _, _, _)
PushRead(b, pos, k, got, r) ==
    IF r.st # "ok" THEN [st |-> r.st, val |-> 0, n |-> pos + r.n]
    ELSE ReadListFrom(b, pos + r.n, k - 1, Append(got, r.val))

ReadListFrom(b, pos, k, got) ==
    IF k = 0 THEN [st |-> "ok", val |-> got, n |-> pos]
    ELSE PushRead(b, pos, k, got, read_string(SubSeq(b, pos + 1, Len(b))))

read_string_list(b) ==
    IF read_num(b).st # "ok" THEN read_num(b) ELSE ReadListFrom(b, 8, read_num(b).val, <<>>)

\* daemon.rs 312-318
RECURSIVE WriteEach(_)
WriteEach(list) == IF list = <<>> THEN <<>> ELSE WriteStringBytes(Head(list)) \o WriteEach(Tail(list))
write_string_list(list) == write_num(Len(list)) \o WriteEach(list)

WireNums == {0, 1, 255, 256, 65535, 65536, 16777215, 16777216, 2147483647}
WireStrings ==
    {[i \in 1..n |-> 96 + i] : n \in 0..MaxPayload}
        \cup {<<0>>, <<195, 169>>, <<97, 226, 130, 172>>, <<40, 0, 0, 0, 0, 0, 0, 0>>}
ListStrings == {<<>>, <<97>>, <<195, 169>>, [i \in 1..8 |-> 96 + i], [i \in 1..MaxPayload |-> 96 + i]}
WireLists == UNION {[1..n -> ListStrings] : n \in 0..MaxRefs}
\* the bytes that follow the value on the stream
WireRests == {<<>>, <<7>>, <<1, 0, 0, 0, 0, 0, 0, 0, 97>>}

InitWire ==
    /\ k_fn \in {"num", "string", "string_list"}
    /\ \E v \in (CASE k_fn = "num" -> WireNums
                   [] k_fn = "string" -> WireStrings
                   [] k_fn = "string_list" -> WireLists) :
       \E rest \in WireRests : k_in = [val |-> v, rest |-> rest]
    /\ k_out = <<>>
    /\ k_pc = "call"

\* the value is written on the stream, before the bytes that follow it
CallWrite ==
    /\ k_pc = "call"
    /\ k_out' = [stream |-> (CASE k_fn = "num" -> write_num(k_in.val)
                               [] k_fn = "string" -> WriteStringBytes(k_in.val)
                               [] k_fn = "string_list" -> write_string_list(k_in.val)) \o k_in.rest,
                 got |-> <<>>]
    /\ k_pc' = "written"
    /\ UNCHANGED <<k_fn, k_in, notCodec>>

\* the matching read is called on the stream
CallRead ==
    /\ k_pc = "written"
    /\ k_out' = [k_out EXCEPT !.got = <<CASE k_fn = "num" -> read_num(k_out.stream)
                                          [] k_fn = "string" -> read_string(k_out.stream)
                                          [] k_fn = "string_list" -> read_string_list(k_out.stream)>>]
    /\ k_pc' = "done"
    /\ UNCHANGED <<k_fn, k_in, notCodec>>

NextWire == CallWrite \/ CallRead

(***************************************************************************)
(* fingerprint_path (signing.rs).  Strings are sequences of characters.     *)
(***************************************************************************)
\* libnixstore::get_store_dir(), "/nix/store" by default; a short prefix stands for it
StoreDir == <<"/", "s">>
HashPrefix == <<"s", "h", "a", "2", "5", "6", ":">>     \* "sha256:"
HashLen == 59

StartsWith(s, prefix) == Len(s) >= Len(prefix) /\ SubSeq(s, 1, Len(prefix)) = prefix

\* format!("{}", nar_size)
Digit(d) == <<"0", "1", "2", "3", "4", "5", "6", "7", "8", "9">>[d + 1]
RECURSIVE Decimal(_)
Decimal(n) == IF n < 10 THEN <<Digit(n)>> ELSE Decimal(n \div 10) \o <<Digit(n % 10)>>

RECURSIVE JoinSet(_)
JoinSet(S) ==
    IF S = {} THEN <<>>
    ELSE LET x == CHOOSE y \in S : TRUE
         IN IF S = {x} THEN x ELSE x \o <<",">> \o JoinSet(S \ {x})

JoinUnordered(refs) == JoinSet({refs[i] : i \in DOMAIN refs})

\* refs.join(",")
RECURSIVE Join(_)
Join(refs) ==
    IF refs = <<>> THEN <<>>
    ELSE IF Len(refs) = 1 THEN refs[1]
    ELSE Head(refs) \o <<",">> \o Join(Tail(refs))

FpOk(v) == [kind |-> "ok", msg |-> "", val |-> v]
FpErr(m) == [kind |-> "err", msg |-> m, val |-> <<>>]
\* a panic unwinds out of fingerprint_path: it returns nothing
FpPanic(m) == [kind |-> "panic", msg |-> m, val |-> <<>>]

\* the loop over refs: r[0..root_store_dir.len()] panics when r is shorter
RECURSIVE RefsLoop(_)
RefsLoop(refs) ==
    IF refs = <<>> THEN "ok"
    ELSE IF Len(Head(refs)) < Len(StoreDir) THEN "panic"
    ELSE IF SubSeq(Head(refs), 1, Len(StoreDir)) # StoreDir THEN "err"
    ELSE RefsLoop(Tail(refs))

FingerprintPath(store_path, nar_hash, nar_size, refs) ==
    IF Len(store_path) < Len(StoreDir) THEN FpErr("store path too short")
    ELSE IF SubSeq(store_path, 1, Len(StoreDir)) # StoreDir
    THEN FpErr("store path does not start with store dir")
    ELSE IF ~StartsWith(nar_hash, HashPrefix)
    THEN FpPanic("assertion failed: nar_hash.starts_with(\"sha256:\")")
    ELSE IF Len(nar_hash) # HashLen THEN FpErr("nar has not the right length")
    ELSE IF RefsLoop(refs) = "panic" THEN FpPanic("byte index out of range")
    ELSE IF RefsLoop(refs) = "err" THEN FpErr("ref path invalid")
    ELSE FpOk(<<"1", ";">> \o store_path \o <<";">> \o nar_hash \o <<";">> \o Decimal(nar_size)
              \o <<";">> \o Join(refs))

\* ---- the arguments considered ----
Chars(c, n) == [i \in 1..n |-> c]
StorePaths == {StoreDir \o <<"/", "a">>, <<"/">>, <<"x", "s", "/", "a">>}
NarHashes ==
    { HashPrefix \o Chars("0", 52),               \* well formed
      HashPrefix \o Chars("0", 51),               \* too short
      <<"m", "d", "5", ":">> \o Chars("0", 55),   \* 59 characters, another prefix
      <<"m", "d", "5", ":">> \o Chars("0", 32),
      <<"s", "h", "a">> }
NarSizes == {0, 42, 226560}
RefStrings ==
    { StoreDir \o <<"/", "a">>, StoreDir \o <<"/", "b">>,
      StoreDir \o <<"/", "a", ",">> \o StoreDir \o <<"/", "a">>,   \* has a comma
      <<"/">>,                                                      \* shorter than the prefix
      <<"x", "s", "/", "a">> }
RefLists == UNION {[1..n -> RefStrings] : n \in 0..MaxRefs}

InitFingerprint ==
    /\ f_args \in {[store_path |-> p, nar_hash |-> h, nar_size |-> z, refs |-> r] :
                      p \in StorePaths, h \in NarHashes, z \in NarSizes, r \in RefLists}
    /\ f_res = <<>>
    /\ f_pc = "call"

CallFingerprintPath ==
    /\ f_pc = "call"
    /\ f_res' = FingerprintPath(f_args.store_path, f_args.nar_hash, f_args.nar_size, f_args.refs)
    /\ f_pc' = "done"
    /\ UNCHANGED <<f_args, notFingerprint>>

NextFingerprint == CallFingerprintPath

(***************************************************************************)
(* Hash encoding (signing.rs): to_nix_base32, val, from_hex,                *)
(* convert_base16_to_nix32.  Bytes are numbers 0..255, characters strings.  *)
(***************************************************************************)
BASE32_CHARS ==
    << "0", "1", "2", "3", "4", "5", "6", "7", "8", "9", "a", "b", "c", "d", "f", "g",
       "h", "i", "j", "k", "l", "m", "n", "p", "q", "r", "s", "v", "w", "x", "y", "z" >>

Returned(v) == [kind |-> "ok", val |-> v]
Erred == [kind |-> "err", val |-> <<>>]
Panicked == [kind |-> "panic", val |-> <<>>]

\* u8::checked_shr(j).unwrap_or(0) and u8::checked_shl(k).unwrap_or(0)
CheckedShr(x, j) == IF j >= 8 THEN 0 ELSE x \div (2 ^ j)
CheckedShl(x, k) == IF k >= 8 THEN 0 ELSE (x * (2 ^ k)) % 256

\* a | b on u8
RECURSIVE BitOr(_, _)
BitOr(a, b) ==
    IF a = 0 THEN b
    ELSE IF b = 0 THEN a
    ELSE (IF a % 2 = 1 \/ b % 2 = 1 THEN 1 ELSE 0) + 2 * BitOr(a \div 2, b \div 2)

\* signing.rs 26: len, for size >= 1
Base32Len(size) == (size * 8 - 1) \div 5 + 1

\* signing.rs 30-43: the character for n
Base32Char(bytes, n) ==
    BASE32_CHARS[
        (BitOr(CheckedShr(bytes[(n * 5) \div 8 + 1], (n * 5) % 8),
               IF (n * 5) \div 8 >= Len(bytes) - 1 THEN 0
               ELSE CheckedShl(bytes[(n * 5) \div 8 + 2], 8 - ((n * 5) % 8)))
         % Len(BASE32_CHARS)) + 1]

\* signing.rs 25-46; bytes.len() * 8 - 1 is below 0 for no bytes: the
\* subtraction panics where overflow is checked, and where it wraps bytes[i]
\* is out of range
ToNixBase32(bytes) ==
    IF Len(bytes) * 8 - 1 < 0 THEN Panicked
    ELSE Returned([p \in 1..Base32Len(Len(bytes)) |-> Base32Char(bytes, Base32Len(Len(bytes)) - p)])

IndexIn(chars, c) == CHOOSE i \in 1..Len(chars) : chars[i] = c
InChars(chars, c) == \E i \in 1..Len(chars) : chars[i] = c
HexUpper == <<"A", "B", "C", "D", "E", "F">>
HexLower == <<"a", "b", "c", "d", "e", "f">>
HexDigits == <<"0", "1", "2", "3", "4", "5", "6", "7", "8", "9">>

\* signing.rs 48-55: val, -1 standing for the error
HexVal(c) ==
    IF InChars(HexUpper, c) THEN IndexIn(HexUpper, c) - 1 + 10
    ELSE IF InChars(HexLower, c) THEN IndexIn(HexLower, c) - 1 + 10
    ELSE IF InChars(HexDigits, c) THEN IndexIn(HexDigits, c) - 1
    ELSE -1

FromHexSwapped(hex) ==
    IF Len(hex) % 2 # 0 THEN Erred
    ELSE IF \E i \in 1..Len(hex) : HexVal(hex[i]) = -1 THEN Erred
    ELSE Returned([i \in 1..(Len(hex) \div 2) |->
                      BitOr((HexVal(hex[2 * i]) * 16) % 256, HexVal(hex[2 * i - 1]))])

\* signing.rs 57-67
FromHex(hex) ==
    IF Len(hex) % 2 # 0 THEN Erred
    ELSE IF \E i \in 1..Len(hex) : HexVal(hex[i]) = -1 THEN Erred
    ELSE Returned([i \in 1..(Len(hex) \div 2) |->
                      BitOr((HexVal(hex[2 * i - 1]) * 16) % 256, HexVal(hex[2 * i]))])

\* signing.rs 69-73; the value of from_hex is handed over as a parameter
EncodeDecoded(decoded) == IF decoded.kind # "ok" THEN Erred ELSE ToNixBase32(decoded.val)
ConvertBase16ToNix32(hash_str) == EncodeDecoded(FromHex(hash_str))

\* ---- the arguments considered ----
ByteValues == {0, 1, 165, 255}
ByteStrings == UNION {[1..n -> ByteValues] : n \in 0..MaxBytes}
HexChars == {"0", "9", "a", "A", "f", "F", "g"}
HexStrings == UNION {[1..n -> HexChars] : n \in 0..MaxHex}

InitBase32 ==
    /\ k_fn \in {"to_nix_base32", "from_hex", "convert_base16_to_nix32"}
    /\ k_in \in IF k_fn = "to_nix_base32" THEN ByteStrings ELSE HexStrings
    /\ k_out = <<>>
    /\ k_pc = "call"

CallToNixBase32 ==
    /\ k_pc = "call" /\ k_fn = "to_nix_base32"
    /\ k_out' = ToNixBase32(k_in)
    /\ k_pc' = "done"
    /\ UNCHANGED <<k_fn, k_in, notCodec>>

CallFromHex ==
    /\ k_pc = "call" /\ k_fn = "from_hex"
    /\ k_out' = FromHex(k_in)
    /\ k_pc' = "done"
    /\ UNCHANGED <<k_fn, k_in, notCodec>>

CallConvertBase16ToNix32 ==
    /\ k_pc = "call" /\ k_fn = "convert_base16_to_nix32"
    /\ k_out' = ConvertBase16ToNix32(k_in)
    /\ k_pc' = "done"
    /\ UNCHANGED <<k_fn, k_in, notCodec>>

NextBase32 == CallToNixBase32 \/ CallFromHex \/ CallConvertBase16ToNix32

(***************************************************************************)
(* The HTTP handlers narinfo::get and nar::get.  One request runs to the   *)
(* response; the tasks a nar request spawns are the ones of the archive    *)
(* serializer above.  Texts are sequences of strings.                      *)
(***************************************************************************)
MaxKeys == 2
MaxSpecs == 2

Absent == [some |-> FALSE, val |-> <<>>]
Present(v) == [some |-> TRUE, val |-> v]

\* what a daemon operation comes to: Err(_), Ok(None), Ok(Some(v))
DaemonErr == [kind |-> "err", val |-> <<>>]
DaemonNone == [kind |-> "none", val |-> <<>>]
DaemonSome(v) == [kind |-> "some", val |-> v]

\* main.rs: the Cache-Control values
cache_control_no_store == "no-store"
cache_control_max_age_1d == "max-age=86400"
cache_control_max_age_1y == "max-age=31536000"

\* ---- responses ----
Response(status, cache, content_range, size, body, text, info) ==
    [status |-> status, cache |-> cache, content_range |-> content_range, size |-> size,
     body |-> body, text |-> text, info |-> info]
NotFound(cache, text) == Response(404, cache, <<>>, -1, "text", text, <<>>)
\* the handler returned Err(_): actix-web answers 500 from the ResponseError of Box<dyn Error>
HandlerErr == Response(500, "", <<>>, -1, "error", "", <<>>)
\* the handler panicked: the connection is closed without a response
HandlerPanic == Response(0, "", <<>>, -1, "panic", "", <<>>)
\* some_or_404!
missed_hash == NotFound(cache_control_no_store, "missed hash")

\* ---- signatures ----
\* sign_string: the key's name, ":" and the base-64 of the Ed25519 signature,
\* which is a function of the key and the message
SignString(sign_key, msg) == [name |-> sign_key.name, sig |-> <<sign_key.key, msg>>]

PushSigs(sign_keys, fingerprint) ==
    [i \in 1..Len(sign_keys) |-> SignString(sign_keys[i], fingerprint)]

SigsOfAppended(pushed, daemon_sigs) == pushed \o daemon_sigs
SigsOf(pushed, daemon_sigs) == IF pushed = <<>> THEN daemon_sigs ELSE pushed

\* ---- the descriptor ----
RECURSIVE LastSlash(_)
LastSlash(path) ==
    IF path = <<>> THEN 0
    ELSE IF path[Len(path)] = "/" THEN Len(path)
    ELSE LastSlash(SubSeq(path, 1, Len(path) - 1))

\* Path::components: trailing separators and trailing "." components are not components
RECURSIVE Normalized(_)
Normalized(path) ==
    IF path # <<>> /\ path[Len(path)] = "/" THEN Normalized(SubSeq(path, 1, Len(path) - 1))
    ELSE IF Len(path) >= 2 /\ path[Len(path) - 1] = "/" /\ path[Len(path)] = "."
    THEN Normalized(SubSeq(path, 1, Len(path) - 2))
    ELSE path

\* Path::file_name: the last component when it is a normal one, else None (<<>>)
FileName(p) ==
    IF SubSeq(p, LastSlash(p) + 1, Len(p)) \in {<<".">>, <<".", ".">>} THEN <<>>
    ELSE SubSeq(p, LastSlash(p) + 1, Len(p))

\* extract_filename: the last component, or nothing
ExtractFilename(path) == FileName(Normalized(path))

RECURSIVE FileNames(_)
FileNames(refs) ==
    IF refs = <<>> THEN <<>>
    ELSE (IF ExtractFilename(Head(refs)) = <<>> THEN <<>> ELSE <<ExtractFilename(Head(refs))>>)
         \o FileNames(Tail(refs))

QueryErr == [kind |-> "err", val |-> <<>>]
QueryPanic == [kind |-> "panic", val |-> <<>>]
QueryNone == [kind |-> "none", val |-> <<>>]
QuerySome(v) == [kind |-> "some", val |-> v]

NarInfo(store_path, hash, path_info, nar_hash, sigs) ==
    [store_path |-> store_path,
     url |-> <<"nar/">> \o nar_hash \o <<".nar?hash=">> \o hash,
     compression |-> "none",
     nar_hash |-> HashPrefix \o nar_hash,
     nar_size |-> path_info.nar_size,
     references |-> FileNames(path_info.references),
     deriver |-> IF path_info.deriver = <<>> THEN Absent ELSE Present(path_info.deriver),
     sigs |-> sigs,
     ca |-> path_info.content_address]

\* a signature string as text: the key's name, ":" and the base-64 text, for
\* which the key and the signed message stand
SigText(s) == <<s.name, ":", s.sig[1], "(">> \o s.sig[2] \o <<")">>

\* Vec<String>::join(sep)
RECURSIVE JoinWith(_, _)
JoinWith(strs, sep) ==
    IF strs = <<>> THEN <<>>
    ELSE IF Len(strs) = 1 THEN strs[1]
    ELSE Head(strs) \o <<sep>> \o JoinWith(Tail(strs), sep)

\* format_narinfo_txt: the lines of `res`, joined by "\n"
format_narinfo_txt(narinfo) ==
    JoinWith(<<<<"StorePath: ">> \o narinfo.store_path,
               <<"URL: ">> \o narinfo.url,
               <<"Compression: ", narinfo.compression>>,
               <<"FileHash: ">> \o narinfo.nar_hash,
               <<"FileSize: ">> \o Decimal(narinfo.nar_size),
               <<"NarHash: ">> \o narinfo.nar_hash,
               <<"NarSize: ">> \o Decimal(narinfo.nar_size)>>
             \o (IF narinfo.references # <<>>
                 THEN <<<<"References: ">> \o JoinWith(narinfo.references, " ")>> ELSE <<>>)
             \o (IF narinfo.deriver.some THEN <<<<"Deriver: ">> \o narinfo.deriver.val>> ELSE <<>>)
             \o [i \in 1..Len(narinfo.sigs) |-> <<"Sig: ">> \o SigText(narinfo.sigs[i])]
             \o (IF narinfo.ca.some THEN <<<<"CA: ">> \o narinfo.ca.val>> ELSE <<>>)
             \o <<<<>>>>,
             "\n")

Signed(store_path, hash, sign_keys, path_info, nar_hash, fingerprint) ==
    IF fingerprint.kind = "panic" THEN QueryPanic
    ELSE IF fingerprint.kind = "err" THEN QueryErr
    ELSE QuerySome(NarInfo(store_path, hash, path_info, nar_hash,
                           SigsOf(PushSigs(sign_keys, fingerprint.val), path_info.sigs)))

Converted(store_path, hash, sign_keys, path_info, nar_hash) ==
    IF nar_hash.kind = "panic" THEN QueryPanic
    ELSE IF nar_hash.kind = "err" THEN QueryErr
    ELSE Signed(store_path, hash, sign_keys, path_info, nar_hash.val,
                FingerprintPath(store_path, HashPrefix \o nar_hash.val, path_info.nar_size,
                                path_info.references))

query_narinfo(store_path, hash, sign_keys, reply) ==
    IF reply.kind = "err" THEN QueryErr
    ELSE IF reply.kind = "none" THEN QueryNone
    ELSE Converted(store_path, hash, sign_keys, reply.val, ConvertBase16ToNix32(reply.val.hash))

\* ---- narinfo::get ----
NarinfoResponse(json, narinfo) ==
    IF narinfo.kind = "panic" THEN HandlerPanic
    ELSE IF narinfo.kind = "err" THEN HandlerErr
    ELSE IF narinfo.kind = "none" THEN NotFound(cache_control_max_age_1d, "missed hash")
    ELSE IF json
    THEN Response(200, cache_control_max_age_1d, <<>>, -1, "json", "", <<narinfo.val>>)
    ELSE Response(200, cache_control_max_age_1d, <<>>, -1, "text/x-nix-narinfo",
                  format_narinfo_txt(narinfo.val), <<narinfo.val>>)

NarinfoGet(req, sign_keys, store) ==
    IF store.path.kind = "err" THEN HandlerErr
    ELSE IF store.path.kind = "none" THEN missed_hash
    ELSE NarinfoResponse(req.json, query_narinfo(store.path.val, req.hash.val, sign_keys, store.info))

\* ---- the Range header of a nar request ----
\* A header value is [str, text, specs]: `str` is whether to_str() accepts it,
\* `text` what it starts with ("bytes=", "" for the empty value, "other"),
\* `specs` the comma separated parts after "bytes=": [kind, a, b] with kind
\* "range" (a-b), "from" (a-), "suffix" (-b), "empty" or "junk".
RangeErr == [ok |-> FALSE, ranges |-> <<>>]
RangeOk(ranges) == [ok |-> TRUE, ranges |-> ranges]

SpecParsed(tag, start, length) == [tag |-> tag, start |-> start, length |-> length]

Min(a, b) == IF a < b THEN a ELSE b

\* one part of the header: invalid, skipped, without overlap, or a range
ParseSpec(spec, size) ==
    IF spec.kind = "junk" THEN SpecParsed("invalid", 0, 0)
    ELSE IF spec.kind = "empty" THEN SpecParsed("skip", 0, 0)
    ELSE IF spec.kind = "suffix" THEN SpecParsed("range", size - Min(spec.b, size), Min(spec.b, size))
    ELSE IF spec.a >= size THEN SpecParsed("no_overlap", 0, 0)
    ELSE IF spec.kind = "from" THEN SpecParsed("range", spec.a, size - spec.a)
    ELSE IF spec.a > spec.b THEN SpecParsed("invalid", 0, 0)
    ELSE SpecParsed("range", spec.a, Min(spec.b, size - 1) - spec.a + 1)

RECURSIVE ParsedSpecs(_, _)
ParsedSpecs(specs, size) ==
    IF specs = <<>> THEN <<>>
    ELSE <<ParseSpec(Head(specs), size)>> \o ParsedSpecs(Tail(specs), size)

IsRange(p) == p.tag = "range"

\* HttpRange::parse
HttpRangeParse(header, size) ==
    IF header.text = "" THEN RangeOk(<<>>)
    ELSE IF header.text # "bytes=" THEN RangeErr
    ELSE IF \E i \in 1..Len(header.specs) : ParseSpec(header.specs[i], size).tag = "invalid"
    THEN RangeErr
    ELSE IF /\ \E i \in 1..Len(header.specs) : ParseSpec(header.specs[i], size).tag = "no_overlap"
            /\ \A i \in 1..Len(header.specs) : ~IsRange(ParseSpec(header.specs[i], size))
    THEN RangeErr
    ELSE RangeOk(SelectSeq(ParsedSpecs(header.specs, size), IsRange))

\* format!("bytes {}-{}/{}", offset, offset + rlength - 1, info.nar_size)
ContentRange(offset, rlength, nar_size) ==
    <<"bytes ">> \o Decimal(offset) \o <<"-">> \o Decimal(offset + rlength - 1) \o <<"/">>
        \o Decimal(nar_size)

\* format!("bytes */{}", rlength)
ContentRangeUnsatisfied(rlength) == <<"bytes */">> \o Decimal(rlength)

Outcome(resp, tasks) == [resp |-> resp, tasks |-> tasks]

\* ---- nar::get, from the Range header on ----
Ranged(ranges, nar_size) ==
    IF ~ranges.ok
    THEN Outcome(Response(416, "", ContentRangeUnsatisfied(nar_size), 0, "none", "", <<>>), {})
    ELSE IF ranges.ranges = <<>> THEN Outcome(HandlerPanic, {})        \* ranges[0]
    ELSE Outcome(Response(200, cache_control_max_age_1y,
                          ContentRange(ranges.ranges[1].start, ranges.ranges[1].length, nar_size),
                          ranges.ranges[1].length, "stream", "", <<>>),
                 {"dump_path", "range"})

Served(range, nar_size) ==
    IF ~range.some
    THEN Outcome(Response(200, cache_control_max_age_1y, <<>>, nar_size, "stream", "", <<>>),
                 {"dump_path"})
    ELSE IF ~range.val.str THEN Outcome(Response(400, "", <<>>, 0, "none", "", <<>>), {})
    ELSE Ranged(HttpRangeParse(range.val, nar_size), nar_size)

Matched(req, info, info_hash_nix32) ==
    IF info_hash_nix32.kind = "panic" THEN Outcome(HandlerPanic, {})
    ELSE IF info_hash_nix32.kind = "err"
    THEN Outcome(Response(500, cache_control_no_store, <<>>, -1, "text",
                          "failed to convert hash to nix32", <<>>), {})
    ELSE IF req.narhash # info_hash_nix32.val
    THEN Outcome(NotFound(cache_control_no_store, "hash mismatch detected"), {})
    ELSE Served(req.range, info.nar_size)

NarGet(req, store) ==
    IF ~req.hash.some THEN Outcome(NotFound(cache_control_no_store, "missing outhash"), {})
    ELSE IF store.path.kind = "err" THEN Outcome(HandlerErr, {})
    ELSE IF store.path.kind = "none"
    THEN Outcome(NotFound(cache_control_no_store, "store path not found"), {})
    ELSE IF store.info.kind = "err" THEN Outcome(HandlerErr, {})
    ELSE IF store.info.kind = "none"
    THEN Outcome(NotFound(cache_control_no_store, "path info not found"), {})
    ELSE Matched(req, store.info.val, ConvertBase16ToNix32(store.info.val.hash))

\* ---- the requests considered ----
GoodHex == Chars("0", 62) \o <<"f", "F">>
InfoHashes == {GoodHex, <<"0", "0", "f", "f">>, <<"g", "0">>, <<>>}
GoodNix32 == ToNixBase32(FromHex(GoodHex).val).val

SigningKeys == {[name |-> "a", key |-> "ka"], [name |-> "b", key |-> "kb"]}
KeyLists == UNION {[1..n -> SigningKeys] : n \in 0..MaxKeys}

\* signatures the daemon holds for a path: any text, also one made with key "a"
DaemonSigs ==
    {[name |-> "d", sig |-> <<"kd", <<"1">>>>], [name |-> "a", sig |-> <<"ka", <<"1">>>>]}
DaemonSigLists == {<<>>} \cup {<<x>> : x \in DaemonSigs} \cup {<<x, y>> : x, y \in DaemonSigs}

\* references the daemon reports: none, one, two out of alphabetical order, and one
\* that ends in ".."
InfoRefs ==
    {<<>>, <<StoreDir \o <<"/", "b">>>>,
     <<StoreDir \o <<"/", "b">>, StoreDir \o <<"/", "a">>>>,
     <<StoreDir \o <<"/", ".", ".">>>>}

PathInfos ==
    {[hash |-> h, nar_size |-> 20, references |-> r, deriver |-> d, sigs |-> g,
      content_address |-> c] :
        h \in InfoHashes, r \in InfoRefs,
        d \in {<<>>, <<"d">>}, g \in DaemonSigLists, c \in {Absent, Present(<<"c">>)}}

Stores ==
    {[path |-> p, info |-> i] :
        p \in {DaemonErr, DaemonNone, DaemonSome(StoreDir \o <<"/", "a">>), DaemonSome(<<"x">>)},
        i \in {DaemonErr, DaemonNone} \cup {DaemonSome(x) : x \in PathInfos}}

RangeSpecs ==
    {[kind |-> "junk", a |-> 0, b |-> 0], [kind |-> "empty", a |-> 0, b |-> 0],
     [kind |-> "range", a |-> 0, b |-> 15], [kind |-> "range", a |-> 5, b |-> 3],
     [kind |-> "range", a |-> 4, b |-> 100], [kind |-> "range", a |-> 50, b |-> 60],
     [kind |-> "from", a |-> 19, b |-> 0], [kind |-> "from", a |-> 20, b |-> 0],
     [kind |-> "suffix", a |-> 0, b |-> 5], [kind |-> "suffix", a |-> 0, b |-> 0]}

RangeHeaders ==
    {[str |-> FALSE, text |-> "other", specs |-> <<>>], [str |-> TRUE, text |-> "", specs |-> <<>>],
     [str |-> TRUE, text |-> "other", specs |-> <<>>]}
    \cup {[str |-> TRUE, text |-> "bytes=", specs |-> s] :
              s \in UNION {[1..n -> RangeSpecs] : n \in 0..MaxSpecs}}

NarinfoRequests ==
    {[handler |-> "narinfo", hash |-> Present(<<"h">>), narhash |-> <<>>, json |-> j,
      range |-> Absent] : j \in BOOLEAN}

NarRequests ==
    {[handler |-> "nar", hash |-> h, narhash |-> n, json |-> FALSE, range |-> r] :
        h \in {Absent, Present(<<"h">>)}, n \in {GoodNix32, <<"0">>},
        r \in {Absent} \cup {Present(x) : x \in RangeHeaders}}

InitHttp ==
    /\ w_req \in NarinfoRequests \cup NarRequests
    /\ w_cfg \in KeyLists
    /\ w_store \in Stores
    \* nixhash gives narinfo::get an Option: the store path or nothing
    /\ w_req.handler = "narinfo" => w_store.path.kind # "err"
    \* nar::get reads neither the keys nor the signatures, references and deriver
    /\ w_req.handler = "nar" =>
          /\ w_cfg = <<>>
          /\ w_store.info.kind = "some" =>
                /\ w_store.info.val.sigs = <<>>
                /\ w_store.info.val.references = <<>>
                /\ w_store.info.val.deriver = <<>>
                /\ w_store.info.val.content_address = Absent
    /\ w_resp = <<>>
    /\ w_spawned = {}
    /\ w_pc = "recv"

\* narinfo::get
GetNarinfo ==
    /\ w_pc = "recv"
    /\ w_req.handler = "narinfo"
    /\ w_resp' = NarinfoGet(w_req, w_cfg, w_store)
    /\ w_pc' = "done"
    /\ UNCHANGED <<w_req, w_cfg, w_store, w_spawned, notHttp>>

\* nar::get
GetNar ==
    /\ w_pc = "recv"
    /\ w_req.handler = "nar"
    /\ \E o \in {NarGet(w_req, w_store)} :
          /\ w_resp' = o.resp
          /\ w_spawned' = o.tasks
    /\ w_pc' = "done"
    /\ UNCHANGED <<w_req, w_cfg, w_store, notHttp>>

NextHttp == GetNarinfo \/ GetNar

(***************************************************************************)
(* Loading the signing keys: config::load with signing::parse_secret_key,  *)
(* and the load of harmonia/src/config.rs with get_secret_key.  A key file *)
(* is its text, a sequence of characters.                                  *)
(***************************************************************************)
MaxKeyFiles == 2

BASE64_CHARS ==
    <<"A", "B", "C", "D", "E", "F", "G", "H", "I", "J", "K", "L", "M", "N", "O", "P",
      "Q", "R", "S", "T", "U", "V", "W", "X", "Y", "Z", "a", "b", "c", "d", "e", "f",
      "g", "h", "i", "j", "k", "l", "m", "n", "o", "p", "q", "r", "s", "t", "u", "v",
      "w", "x", "y", "z", "0", "1", "2", "3", "4", "5", "6", "7", "8", "9", "+", "/">>

Whitespace == {" ", "\n"}

\* str::trim
RECURSIVE TrimStart(_)
TrimStart(t) == IF t # <<>> /\ Head(t) \in Whitespace THEN TrimStart(Tail(t)) ELSE t
RECURSIVE TrimEnd(_)
TrimEnd(t) ==
    IF t # <<>> /\ t[Len(t)] \in Whitespace THEN TrimEnd(SubSeq(t, 1, Len(t) - 1)) ELSE t
Trim(t) == TrimEnd(TrimStart(t))

\* str::split_once(':'): the index of the first ':', 0 if there is none
FirstColon(t) ==
    IF \E i \in 1..Len(t) : t[i] = ":"
    THEN CHOOSE i \in 1..Len(t) : t[i] = ":" /\ \A j \in 1..(i - 1) : t[j] # ":"
    ELSE 0

\* general_purpose::STANDARD.decode: padded, canonical
Sextet(c) == IndexIn(BASE64_CHARS, c) - 1

RECURSIVE Padding(_)
Padding(t) == IF t # <<>> /\ t[Len(t)] = "=" THEN 1 + Padding(SubSeq(t, 1, Len(t) - 1)) ELSE 0

\* the bytes of full groups of four symbols
RECURSIVE Quads(_)
Quads(t) ==
    IF Len(t) < 4 THEN <<>>
    ELSE << Sextet(t[1]) * 4 + Sextet(t[2]) \div 16,
            (Sextet(t[2]) % 16) * 16 + Sextet(t[3]) \div 4,
            (Sextet(t[3]) % 4) * 64 + Sextet(t[4]) >> \o Quads(SubSeq(t, 5, Len(t)))

\* the bytes of the last, padded group: two or three symbols
LastGroup(t) ==
    IF Len(t) = 2 THEN << Sextet(t[1]) * 4 + Sextet(t[2]) \div 16 >>
    ELSE << Sextet(t[1]) * 4 + Sextet(t[2]) \div 16,
            (Sextet(t[2]) % 16) * 16 + Sextet(t[3]) \div 4 >>

\* symbols is the text without its padding, pad the number of '=' removed
DecodeSymbols(symbols, pad) ==
    IF \E i \in 1..Len(symbols) : ~InChars(BASE64_CHARS, symbols[i]) THEN Erred
    ELSE IF (Len(symbols) + pad) % 4 # 0 \/ pad > 2 THEN Erred
    ELSE IF Len(symbols) % 4 = 0 THEN (IF pad = 0 THEN Returned(Quads(symbols)) ELSE Erred)
    ELSE IF Len(symbols) % 4 = 1 THEN Erred
    ELSE IF Len(symbols) % 4 = 2 /\ Sextet(symbols[Len(symbols)]) % 16 # 0 THEN Erred
    ELSE IF Len(symbols) % 4 = 3 /\ Sextet(symbols[Len(symbols)]) % 4 # 0 THEN Erred
    ELSE Returned(Quads(SubSeq(symbols, 1, Len(symbols) - (Len(symbols) % 4)))
                  \o LastGroup(SubSeq(symbols, Len(symbols) - (Len(symbols) % 4) + 1,
                                      Len(symbols))))

Base64Decode(t) == DecodeSymbols(SubSeq(t, 1, Len(t) - Padding(t)), Padding(t))

KeyLen == 64

SigningKey(name, key) == [name |-> name, key |-> key, text |-> <<>>]
\* the key as harmonia/src/config.rs keeps it: the text of the file
KeyText(text) == [name |-> <<>>, key |-> <<>>, text |-> text]

KeyOk(k) == [kind |-> "ok", val |-> <<k>>]
KeyErr == [kind |-> "err", val |-> <<>>]
\* Ok(None)
KeyNone == [kind |-> "ok", val |-> <<>>]

\* signing::parse_secret_key
Decoded64(name, sign_keyno64) ==
    IF sign_keyno64.kind # "ok" THEN KeyErr
    ELSE IF Len(sign_keyno64.val) = KeyLen THEN KeyOk(SigningKey(name, sign_keyno64.val))
    ELSE KeyErr

SplitKey(sign_key, colon) ==
    IF colon = 0 THEN KeyErr
    ELSE Decoded64(SubSeq(sign_key, 1, colon - 1),
                   Base64Decode(Trim(SubSeq(sign_key, colon + 1, Len(sign_key)))))

parse_secret_key(sign_key) == SplitKey(sign_key, FirstColon(sign_key))

\* get_secret_key of harmonia/src/config.rs, for the file at the configured path
Checked64(sign_key, sign_keyno64) ==
    IF sign_keyno64.kind # "ok" THEN KeyErr
    ELSE IF Len(sign_keyno64.val) = KeyLen THEN KeyOk(KeyText(sign_key))
    ELSE KeyNone       \* "invalid signing key provided. signing disabled"

SplitChecked(sign_key, colon) ==
    IF colon = 0 THEN KeyErr
    ELSE Checked64(sign_key, Base64Decode(Trim(SubSeq(sign_key, colon + 1, Len(sign_key)))))

get_secret_key(sign_key) == SplitChecked(sign_key, FirstColon(sign_key))

\* ---- the key files considered ----
GoodKey64 == Chars("A", 86) \o <<"=", "=">>
KeyBodies ==
    { GoodKey64,
      <<"A", "A", "A", "A">>,                  \* three bytes
      Chars("A", 88),                          \* 66 bytes
      <<"A", "!", "A", "A">>,                  \* not base-64
      <<"x", ":">> \o GoodKey64 }              \* a second ':'
KeyFiles ==
    {GoodKey64}                                \* no ':'
    \cup {<<"n">> \o <<":">> \o lead \o body \o trail :
             lead \in {<<>>, <<" ">>}, body \in KeyBodies, trail \in {<<>>, <<"\n">>}}
KeyFileLists == UNION {[1..n -> KeyFiles] : n \in 0..MaxKeyFiles}

InitConfig ==
    /\ c_loader \in {"src", "harmonia"}
    /\ c_files \in KeyFileLists
    \* harmonia/src/config.rs has one sign_key_path
    /\ c_loader = "harmonia" => Len(c_files) <= 1
    /\ c_keys = <<>>
    /\ c_st = "load"

\* config::load: one iteration of `for sign_key_path in &settings.sign_key_paths`
PushSecretKey ==
    /\ c_st = "load" /\ c_loader = "src"
    /\ Len(c_keys) < Len(c_files)
    /\ \E k \in {parse_secret_key(c_files[Len(c_keys) + 1])} :
          IF k.kind = "ok"
          THEN c_keys' = c_keys \o k.val /\ c_st' = "load"
          ELSE c_keys' = c_keys /\ c_st' = "err"
    /\ UNCHANGED <<c_loader, c_files, notConfig>>

\* config::load: after the loop
LoadReturn ==
    /\ c_st = "load" /\ c_loader = "src"
    /\ Len(c_keys) = Len(c_files)
    /\ c_st' = "ok"
    /\ UNCHANGED <<c_loader, c_files, c_keys, notConfig>>

\* load of harmonia/src/config.rs
LoadHarmonia ==
    /\ c_st = "load" /\ c_loader = "harmonia"
    /\ IF c_files = <<>>
       THEN c_keys' = c_keys /\ c_st' = "ok"
       ELSE \E k \in {get_secret_key(c_files[1])} :
               IF k.kind = "ok"
               THEN c_keys' = c_keys \o k.val /\ c_st' = "ok"
               ELSE c_keys' = c_keys /\ c_st' = "err"
    /\ UNCHANGED <<c_loader, c_files, notConfig>>

NextConfig == PushSecretKey \/ LoadReturn \/ LoadHarmonia

(***************************************************************************)
(* The listing of a store path: narlist::get_nar_list.  It walks the same  *)
(* file systems as dump_path; read_dir yields the entries in any order.    *)
(***************************************************************************)
\* NarEntry
RegularEntry(size, executable) ==
    [type |-> "regular", nar_offset |-> Absent, size |-> size, executable |-> executable,
     target |-> <<>>, entries |-> <<>>]
SymlinkEntry(target) ==
    [type |-> "symlink", nar_offset |-> Absent, size |-> 0, executable |-> FALSE,
     target |-> target, entries |-> <<>>]
DirectoryEntry(entries) ==
    [type |-> "directory", nar_offset |-> Absent, size |-> 0, executable |-> FALSE,
     target |-> <<>>, entries |-> entries]

NarList(root) == [version |-> 1, root |-> root]

\* to_string_lossy of a name: a byte that is not UTF-8 becomes U+FFFD
RECURSIVE ToStringLossy(_)
ToStringLossy(name) ==
    IF name = <<>> THEN <<>>
    ELSE (IF Head(name) < 128 THEN <<Head(name)>> ELSE <<239, 191, 189>>)
         \o ToStringLossy(Tail(name))

\* metadata.permissions().mode() & 0o111 != 0
AnyExecutable(node) ==
    \/ (node.mode \div 64) % 2 # 0
    \/ (node.mode \div 8) % 2 # 0
    \/ node.mode % 2 # 0

file_entry(node) == RegularEntry(node.len, AnyExecutable(node))
symlink_entry(node) == SymlinkEntry(ToStringLossy(node.target))

\* HashMap::insert
HashMapInsert(map, key, value) ==
    [k \in DOMAIN map \cup {key} |-> IF k = key THEN value ELSE map[k]]

\* Frame: of the directory at `path`, `dir_entry` holds the names read_dir has
\* still to yield
ListFrame(path, node) ==
    [path |-> path, nar_entry |-> DirectoryEntry(<<>>), dir_entry |-> DOMAIN node.entries,
     dir |-> node]

WithEntry(frame, name, entry) ==
    [frame EXCEPT !.nar_entry.entries = HashMapInsert(@, name, entry)]

\* ---- the file systems considered ----
NameHigh == <<255>>                         \* a name that is not UTF-8
ListTrees ==
    Trees \cup
    { File(365, 1),                         \* mode 0o555
      File(428, 1),                         \* mode 0o654: executable for the group only
      Dir([n \in {NameA, NameB} |-> IF n = NameA THEN File(421, 0) ELSE Fifo]),
      Dir([n \in {NameHigh} |-> Symlink(NameHigh)]),
      Dir([n \in {NameA, NameB, NameBa} |->
              IF n = NameA THEN File(365, 1)
              ELSE IF n = NameB THEN Symlink(NameA)
              ELSE Dir([m \in {NameA, NameB} |-> IF m = NameA THEN File(420, 2) ELSE Dir(NoEntries)])]) }

InitList ==
    /\ l_macos \in BOOLEAN
    /\ l_tree \in ListTrees
    /\ l_stack = <<>>
    /\ l_root = <<>>
    /\ l_pc = "start"

listFixed == <<l_macos, l_tree>>

\* get_nar_list up to the loop
ListStart ==
    /\ l_pc = "start"
    /\ IF IsFile(l_tree)
       THEN l_root' = <<NarList(file_entry(l_tree))>> /\ l_pc' = "done" /\ l_stack' = l_stack
       ELSE IF IsSymlink(l_tree)
       THEN l_root' = <<NarList(symlink_entry(l_tree))>> /\ l_pc' = "done" /\ l_stack' = l_stack
       ELSE IF IsDir(l_tree)
       THEN l_root' = l_root /\ l_pc' = "loop" /\ l_stack' = <<ListFrame(<<>>, l_tree)>>
       ELSE l_root' = l_root /\ l_pc' = "err" /\ l_stack' = l_stack
    /\ UNCHANGED <<listFixed, notList>>

\* next_entry() yields an entry
ListEntry ==
    /\ l_pc = "loop"
    /\ \E name \in l_stack[Len(l_stack)].dir_entry :
       \E rest \in {[l_stack EXCEPT ![Len(l_stack)].dir_entry = @ \ {name}]} :
       \E entry_path \in {Append(l_stack[Len(l_stack)].path, name)} :
       \E node \in {l_stack[Len(l_stack)].dir.entries[name]} :
          IF IsFile(node)
          THEN l_stack' = [rest EXCEPT ![Len(rest)] =
                              WithEntry(@, ToStringLossy(name), file_entry(node))]
          ELSE IF IsSymlink(node)
          THEN l_stack' = [rest EXCEPT ![Len(rest)] =
                              WithEntry(@, ToStringLossy(name), symlink_entry(node))]
          ELSE IF IsDir(node)
          THEN l_stack' = Append(rest, ListFrame(entry_path, node))
          ELSE l_stack' = rest
    /\ UNCHANGED <<l_root, l_pc, listFixed, notList>>

\* next_entry() yields None: the frame is popped
ListPop ==
    /\ l_pc = "loop"
    /\ l_stack[Len(l_stack)].dir_entry = {}
    /\ \E entry \in {l_stack[Len(l_stack)]} :
       \E rest \in {SubSeq(l_stack, 1, Len(l_stack) - 1)} :
          IF rest # <<>>
          THEN /\ l_stack' = [rest EXCEPT ![Len(rest)] =
                                 WithEntry(@, ToStringLossy(entry.path[Len(entry.path)]),
                                           entry.nar_entry)]
               /\ UNCHANGED <<l_root, l_pc>>
          ELSE /\ l_stack' = rest
               /\ l_root' = <<NarList(entry.nar_entry)>>
               /\ l_pc' = "done"
    /\ UNCHANGED <<listFixed, notList>>

NextList == ListStart \/ ListEntry \/ ListPop

(***************************************************************************)
(* The handlers and the daemon mutex (nar.rs 325-497, narinfo.rs 36-172).   *)
(* Each task serves one request at a time.  A daemon operation is one step  *)
(* here: the task holds the guard while it awaits the answer.               *)
(***************************************************************************)
Requests ==
    {[kind |-> "nar", outhash |-> o, range |-> r] : o \in BOOLEAN, r \in BOOLEAN}
        \cup {[kind |-> "narinfo", outhash |-> TRUE, range |-> FALSE]}

\* nixhash, which narinfo::get calls first: it locks the session for one daemon
\* transaction (query_path_from_hash_part) and returns the Option
Nixhash == [lock |-> "i_lock0", op |-> "i_op0", then |-> "i_found"]

\* the expressions `settings.store.daemon.lock().await`
LockSites == {"n_lock1", "n_lock2", "i_lock", Nixhash.lock}

\* the daemon operation called on the guard of each lock (nar.rs 349, 373; narinfo.rs 49)
OpOfLock ==
    [l \in LockSites |->
        CASE l = "n_lock1" -> "n_op1"
          [] l = "n_lock2" -> "n_op2"
          [] l = "i_lock" -> "i_op"
          [] l = Nixhash.lock -> Nixhash.op]

OpSites == {OpOfLock[l] : l \in LockSites}

\* a faulty variant: the guard is bound to a local of the handler and lives until it returns
GuardKeptToReturn(site) == "returned"

\* The guard is a temporary.  It is dropped at the end of the match arm that
\* locks (nar.rs 344-351), at the end of the `let` whose match scrutinee locks
\* (nar.rs 368-383, narinfo.rs 44-57), or when nixhash returns.  The value is the
\* position the handler is at once the guard is gone.
GuardDropsAt(site) ==
    CASE site = "n_lock1" -> "n_found"
      [] site = "n_lock2" -> "n_checks"
      [] site = "i_lock" -> "i_build"
      [] site = Nixhash.lock -> Nixhash.then

\* positions at which no guard of the handler is alive any more
Drops(pos) == pos \in {GuardDropsAt(l) : l \in LockSites} \cup {"returned", "idle"}

\* the handler of task h moves on to position pos
Goto(h, pos) ==
    /\ g_pc' = Set(g_pc, h, pos)
    /\ mutex' = IF mutex = h /\ Drops(pos) THEN 0 ELSE mutex

InitRequests ==
    /\ g_req = [h \in Handlers |-> <<>>]
    /\ g_pc = [h \in Handlers |-> "idle"]
    /\ g_val = [h \in Handlers |-> ""]
    /\ g_tasks = [h \in Handlers |-> {}]
    /\ g_left = [h \in Handlers |-> 0]
    /\ g_mid = [h \in Handlers |-> <<>>]
    /\ g_body = [h \in Handlers |-> <<>>]
    /\ g_gone = [h \in Handlers |-> FALSE]
    /\ g_nreq = 0

daemonRest == <<sessionVars, handlerVars, wireVars, nops, ncancel, histVars>>
streamVars == <<g_tasks, g_left, g_mid, g_body, g_gone>>

\* actix hands a request to the task: get of nar.rs or get of narinfo.rs is called
Accept(h) ==
    /\ g_pc[h] = "idle"
    /\ g_nreq < MaxRequests
    /\ g_nreq' = g_nreq + 1
    /\ \E rq \in Requests :
          /\ g_req' = Set(g_req, h, rq)
          /\ Goto(h, IF rq.kind = "nar" THEN "n_outhash" ELSE Nixhash.lock)
    /\ UNCHANGED <<g_val, streamVars, daemonRest>>
    /\ UNCHANGED notRequests

\* nar.rs 338-357: no outhash in the query or the path: 404 "missing outhash"
Outhash(h) ==
    /\ g_pc[h] = "n_outhash"
    /\ Goto(h, IF g_req[h].outhash THEN "n_lock1" ELSE "returned")
    /\ UNCHANGED <<g_req, g_val, streamVars, g_nreq, daemonRest>>
    /\ UNCHANGED notRequests

\* `.lock().await` completes: the tokio Mutex is free and the guard is created
LockGranted(h) ==
    /\ g_pc[h] \in LockSites
    /\ LockFree
    /\ mutex' = h
    /\ g_pc' = Set(g_pc, h, OpOfLock[g_pc[h]])
    /\ UNCHANGED <<g_req, g_val, streamVars, g_nreq, daemonRest>>
    /\ UNCHANGED notRequests

\* nar.rs 349-351, 373-375; narinfo.rs 49-51: the daemon operation returns; an
\* Err leaves the handler through `?`, an Ok value is matched
OperationReturns(h) ==
    /\ g_pc[h] \in OpSites
    /\ \E r \in {"err", "none", "some"} :
          /\ g_val' = Set(g_val, h, IF r = "err" THEN "" ELSE r)
          /\ Goto(h, CASE r = "err" -> "returned"
                       [] g_pc[h] = "n_op1" -> "n_found"
                       [] g_pc[h] = "n_op2" -> "n_arms2"
                       [] g_pc[h] = "i_op" -> "i_arms"
                       [] g_pc[h] = Nixhash.op -> Nixhash.then)
    /\ UNCHANGED <<g_req, streamVars, g_nreq, daemonRest>>
    /\ UNCHANGED notRequests

\* nar.rs 359-366, 376-382; narinfo.rs 52-56, 143, 152-156: the Option is matched:
\* None returns 404, Some(v) goes on
OptionMatched(h) ==
    /\ g_pc[h] \in {"n_found", "n_arms2", "i_arms", Nixhash.then}
    /\ Goto(h, CASE g_val[h] = "none" -> "returned"
                 [] g_pc[h] = "n_found" -> "n_lock2"
                 [] g_pc[h] = "n_arms2" -> "n_checks"
                 [] g_pc[h] = "i_arms" -> "i_build"
                 [] g_pc[h] = Nixhash.then -> "i_lock")
    /\ UNCHANGED <<g_req, g_val, streamVars, g_nreq, daemonRest>>
    /\ UNCHANGED notRequests

\* nar.rs 385-436: the hash checks and the Range header; each may return early.
\* narinfo.rs 58-103, 158-171: the descriptor is built and returned.
Checks(h) ==
    /\ g_pc[h] \in {"n_checks", "i_build"}
    /\ \E early \in BOOLEAN :
          Goto(h, IF early \/ g_pc[h] = "i_build" THEN "returned" ELSE "n_spawn")
    /\ UNCHANGED <<g_req, g_val, streamVars, g_nreq, daemonRest>>
    /\ UNCHANGED notRequests

\* nar.rs 437-497: task::spawn of dump_path, and of the range task for a Range
\* request; get returns the response whose body is the receiver
Spawn(h) ==
    /\ g_pc[h] = "n_spawn"
    /\ g_tasks' = Set(g_tasks, h, IF g_req[h].range THEN {"producer", "range"} ELSE {"producer"})
    /\ g_left' = Set(g_left, h, MaxChunks)
    /\ Goto(h, "returned")
    /\ UNCHANGED <<g_req, g_val, g_mid, g_body, g_gone, g_nreq, daemonRest>>
    /\ UNCHANGED notRequests

\* nar.rs 102: dump_path sends a chunk on its channel, or finds the receiver dropped
\* and returns; nar.rs 444, 485: with nothing left it returns and drops its sender
ProducerStep(h) ==
    /\ "producer" \in g_tasks[h]
    /\ IF g_left[h] = 0 \/ (IF g_req[h].range THEN "range" \notin g_tasks[h] ELSE g_gone[h])
       THEN /\ g_tasks' = Set(g_tasks, h, g_tasks[h] \ {"producer"})
            /\ UNCHANGED <<g_left, g_mid, g_body>>
       ELSE /\ g_left' = Set(g_left, h, g_left[h] - 1)
            /\ IF g_req[h].range
               THEN /\ HasRoom(g_mid[h])
                    /\ g_mid' = Set(g_mid, h, Append(g_mid[h], g_left[h]))
                    /\ UNCHANGED g_body
               ELSE /\ HasRoom(g_body[h])
                    /\ g_body' = Set(g_body, h, Append(g_body[h], g_left[h]))
                    /\ UNCHANGED g_mid
            /\ UNCHANGED g_tasks
    /\ UNCHANGED <<g_req, g_pc, g_val, g_gone, g_nreq, mutex, daemonRest>>
    /\ UNCHANGED notRequests

\* nar.rs 450-481: the range task forwards a chunk, or ends when rx2 is closed
\* and empty or its own send fails
RangeStep(h) ==
    /\ "range" \in g_tasks[h]
    /\ IF g_mid[h] = <<>>
       THEN /\ "producer" \notin g_tasks[h]
            /\ g_tasks' = Set(g_tasks, h, g_tasks[h] \ {"range"})
            /\ UNCHANGED <<g_mid, g_body>>
       ELSE IF g_gone[h]
            THEN /\ g_tasks' = Set(g_tasks, h, g_tasks[h] \ {"range"})
                 /\ g_mid' = Set(g_mid, h, <<>>)
                 /\ UNCHANGED g_body
            ELSE /\ HasRoom(g_body[h])
                 /\ g_mid' = Set(g_mid, h, Tail(g_mid[h]))
                 /\ g_body' = Set(g_body, h, Append(g_body[h], Head(g_mid[h])))
                 /\ UNCHANGED g_tasks
    /\ UNCHANGED <<g_req, g_pc, g_val, g_left, g_gone, g_nreq, mutex, daemonRest>>
    /\ UNCHANGED notRequests

\* the HTTP layer polls the body stream and writes a chunk to the client
ChunkSent(h) ==
    /\ g_pc[h] = "returned"
    /\ g_body[h] # <<>> /\ ~g_gone[h]
    /\ g_body' = Set(g_body, h, Tail(g_body[h]))
    /\ UNCHANGED <<g_req, g_pc, g_val, g_tasks, g_left, g_mid, g_gone, g_nreq, mutex, daemonRest>>
    /\ UNCHANGED notRequests

\* the client disconnects while the body is streamed: the receiver is dropped
ClientGone(h) ==
    /\ g_pc[h] = "returned"
    /\ g_tasks[h] # {} \/ g_body[h] # <<>>
    /\ ~g_gone[h]
    /\ g_gone' = Set(g_gone, h, TRUE)
    /\ g_body' = Set(g_body, h, <<>>)
    /\ UNCHANGED <<g_req, g_pc, g_val, g_tasks, g_left, g_mid, g_nreq, mutex, daemonRest>>
    /\ UNCHANGED notRequests

\* the handler's future is dropped while it awaits the lock or the daemon (client
\* disconnect, request timeout): its temporaries are dropped, the guard among them
Dropped(h) ==
    /\ g_pc[h] \in LockSites \cup OpSites
    /\ Goto(h, "idle")
    /\ g_req' = Set(g_req, h, <<>>)
    /\ g_val' = Set(g_val, h, "")
    /\ UNCHANGED <<streamVars, g_nreq, daemonRest>>
    /\ UNCHANGED notRequests

\* the response has been written and the tasks of the request have ended
RequestDone(h) ==
    /\ g_pc[h] = "returned"
    /\ g_tasks[h] = {} /\ g_body[h] = <<>>
    /\ Goto(h, "idle")
    /\ g_req' = Set(g_req, h, <<>>)
    /\ g_val' = Set(g_val, h, "")
    /\ g_gone' = Set(g_gone, h, FALSE)
    /\ UNCHANGED <<g_tasks, g_left, g_mid, g_body, g_nreq, daemonRest>>
    /\ UNCHANGED notRequests

NextRequests ==
    \E h \in Handlers :
        \/ Accept(h) \/ Outhash(h) \/ LockGranted(h) \/ OperationReturns(h) \/ OptionMatched(h)
        \/ Checks(h) \/ Spawn(h) \/ ProducerStep(h) \/ RangeStep(h) \/ ChunkSent(h)
        \/ ClientGone(h) \/ Dropped(h) \/ RequestDone(h)

(***************************************************************************)
(* States in which a part of the program is not running.                    *)
(***************************************************************************)
IdleDump ==
    /\ d_macos = FALSE /\ d_tree = <<>> /\ d_range = <<>> /\ d_stack = <<>> /\ d_pc = "done"
    /\ d_buf = <<>> /\ d_left = 0 /\ d_tx = <<>> /\ d_txclosed = FALSE /\ d_rsend = 0
    /\ d_rpc = "off" /\ d_body = <<>> /\ d_rxclosed = FALSE /\ d_sent = <<>> /\ d_reads = <<>>
    /\ d_err = "" /\ d_mark = <<>> /\ d_names = <<>> /\ d_rbuf = <<>> /\ d_frames = <<>>

IdleRequests == InitRequests

IdleCodec == k_fn = "" /\ k_in = <<>> /\ k_out = <<>> /\ k_pc = "done"

IdleFingerprint == f_args = <<>> /\ f_res = <<>> /\ f_pc = "done"

IdleConfig == c_loader = "" /\ c_files = <<>> /\ c_keys = <<>> /\ c_st = "ok"

IdleList ==
    l_macos = FALSE /\ l_tree = <<>> /\ l_stack = <<>> /\ l_root = <<>> /\ l_pc = "done"

IdleHttp ==
    /\ w_req = <<>> /\ w_cfg = <<>> /\ w_store = <<>>
    /\ w_resp = <<>> /\ w_spawned = {} /\ w_pc = "done"

(***************************************************************************)
(* Specifications.                                                          *)
(***************************************************************************)
\* the range stage of one ranged nar request, the daemon session at rest
InitRangeStage == InitRange /\ InitDaemon /\ IdleDump /\ IdleCodec /\ IdleFingerprint /\ IdleHttp /\ IdleConfig /\ IdleList /\ IdleRequests
SpecRange == InitRangeStage /\ [][NextRange]_vars

IdleRange ==
    /\ r_prod = <<>> /\ r_chan = <<>> /\ r_offset = 0 /\ r_rlength = 1 /\ r_send = 0
    /\ r_out = <<>> /\ r_pc = "done" /\ r_rxclosed = FALSE /\ r_size = 1

\* the daemon session under concurrent handlers, no range stage running
Init == IdleRange /\ InitDaemon /\ IdleDump /\ IdleCodec /\ IdleFingerprint /\ IdleHttp /\ IdleConfig /\ IdleList /\ IdleRequests

Next ==
    \E h \in Handlers :
        \/ Acquire(h)
        \/ Connect(h)
        \/ HandshakeWrite(h)
        \/ HandshakeRead(h)
        \/ HandshakeDrain(h)
        \/ SendOp(h)
        \/ WriteArg(h)
        \/ ForwardStderr(h)
        \/ ReadResponse(h)
        \/ Release(h)
        \/ Cancel(h)

Spec == Init /\ [][Next]_vars

InitDumpStage == InitDump /\ IdleRange /\ InitDaemon /\ IdleCodec /\ IdleFingerprint /\ IdleHttp /\ IdleConfig /\ IdleList /\ IdleRequests
SpecDump == InitDumpStage /\ [][NextDump]_vars

\* the tasks of a nar request, each spawned on the runtime and polled whenever it can run
Producer ==
    \/ DumpStart \/ DirBegin \/ EndEmptyDirectory \/ EndEntry \/ Entry \/ EndDirectory
    \/ FileBegin \/ FileSize \/ ReadFile \/ SendContents \/ SendPadding \/ FileEnd
    \/ ReadLink \/ DumpSymlink \/ Unsupported \/ DumpReturn
RangeTask == RangeTaskRecv \/ RangeTaskSend \/ RangeTaskEnd
SpecDumpLive ==
    InitDumpStage /\ [][NextDump]_vars
        /\ WF_vars(Producer) /\ WF_vars(RangeTask) /\ WF_vars(BodyRecv)

InitCodecStage == InitCodec /\ IdleRange /\ InitDaemon /\ IdleDump /\ IdleFingerprint /\ IdleHttp /\ IdleConfig /\ IdleList /\ IdleRequests
SpecCodec == InitCodecStage /\ [][NextCodec]_vars

InitWireStage ==
    InitWire /\ IdleRange /\ InitDaemon /\ IdleDump /\ IdleFingerprint /\ IdleHttp /\ IdleConfig
    /\ IdleList /\ IdleRequests
SpecWire == InitWireStage /\ [][NextWire]_vars

InitFingerprintStage == InitFingerprint /\ IdleRange /\ InitDaemon /\ IdleDump /\ IdleCodec /\ IdleHttp /\ IdleConfig /\ IdleList /\ IdleRequests
SpecFingerprint == InitFingerprintStage /\ [][NextFingerprint]_vars

InitBase32Stage == InitBase32 /\ IdleRange /\ InitDaemon /\ IdleDump /\ IdleFingerprint /\ IdleHttp /\ IdleConfig /\ IdleList /\ IdleRequests
SpecBase32 == InitBase32Stage /\ [][NextBase32]_vars

InitHttpStage ==
    InitHttp /\ IdleRange /\ InitDaemon /\ IdleDump /\ IdleCodec /\ IdleFingerprint /\ IdleConfig
    /\ IdleList /\ IdleRequests
SpecHttp == InitHttpStage /\ [][NextHttp]_vars

InitConfigStage ==
    InitConfig /\ IdleRange /\ InitDaemon /\ IdleDump /\ IdleCodec /\ IdleFingerprint /\ IdleHttp
    /\ IdleList /\ IdleRequests
SpecConfig == InitConfigStage /\ [][NextConfig]_vars

InitListStage ==
    InitList /\ IdleRange /\ InitDaemon /\ IdleDump /\ IdleCodec /\ IdleFingerprint /\ IdleHttp
    /\ IdleConfig /\ IdleRequests
SpecList == InitListStage /\ [][NextList]_vars

InitRequestsStage ==
    InitRequests /\ IdleRange /\ InitDaemon /\ IdleDump /\ IdleCodec /\ IdleFingerprint
    /\ IdleHttp /\ IdleConfig /\ IdleList
SpecRequests == InitRequestsStage /\ [][NextRequests]_vars

\* the window archive[offset : offset+length]
Window == SubSeq(Archive(r_size), r_offset + 1, r_offset + r_rlength)

\* C1: the chunks forwarded by the range stage concatenate to
\* archive[offset : offset+length]: never a byte outside the window, exactly
\* `length` bytes once the stream has ended, and no out-of-bounds slice.
C1_RangeSlicing ==
    /\ r_pc # "panic"
    /\ IsPrefix(Flatten(r_out), Window)
    /\ (r_pc = "done" /\ ~r_rxclosed) => Flatten(r_out) = Window

(***************************************************************************)
(* Reading the log of an operation.                                         *)
(***************************************************************************)
Holders == {h \in Handlers : pc[h] \in OpSteps \cup {"return"}}

Failed(log) == log # <<>> /\ log[Len(log)].e = "fail"
Failure(log) == log[Len(log)]
Wrote(log, k) == \E j \in 1..Len(log) : log[j].e = "w" /\ log[j].k = k
IsLast(en) == en.e = "msg" /\ en.k = "Last"

\* the steps of the handshake as the specification lists them, with what is written
ExpectedHandshake ==
    <<[e |-> "w", k |-> "w_magic1", v |-> <<1852405859>>],
      [e |-> "r", k |-> "r_magic", v |-> <<>>],
      [e |-> "r", k |-> "r_version", v |-> <<>>],
      [e |-> "w", k |-> "w_version", v |-> <<294>>],
      [e |-> "w", k |-> "w_affinity", v |-> <<0>>],
      [e |-> "w", k |-> "w_reserve", v |-> <<0>>],
      [e |-> "r", k |-> "r_features", v |-> <<>>],
      [e |-> "w", k |-> "w_features", v |-> <<0>>],
      [e |-> "r", k |-> "r_dversion", v |-> <<>>],
      [e |-> "r", k |-> "r_trusted", v |-> <<>>]>>

Values(ws) == [j \in 1..Len(ws) |-> ws[j].n]

\* index of the Last that ends the handshake of a log that starts with a dial, 0 if none
HandshakeEnd(log) ==
    LET n == Len(ExpectedHandshake)
        S == {j \in (n + 2)..Len(log) : IsLast(log[j])}
    IN  IF S = {} THEN 0 ELSE CHOOSE j \in S : \A j2 \in S : j <= j2

\* the log of an operation from its first own step on (after the handshake, if it dialled)
OwnSteps(log) ==
    IF log # <<>> /\ log[1].e = "dial"
    THEN IF HandshakeEnd(log) = 0 THEN <<>> ELSE SubSeq(log, HandshakeEnd(log) + 1, Len(log))
    ELSE log

\* a log that starts with a dial follows the handshake order up to where it has got
HandshakeInOrder(log) ==
    LET n == Len(ExpectedHandshake)
        end == HandshakeEnd(log)
    IN  \A j \in 2..Len(log) :
          /\ log[j].e # "dial"
          /\ (log[j].e = "fail") => j = Len(log)
          /\ (j <= n + 1 /\ log[j].e # "fail") =>
                /\ log[j].e = ExpectedHandshake[j - 1].e
                /\ log[j].k = ExpectedHandshake[j - 1].k
                /\ log[j].e = "w" => Values(log[j].w) = ExpectedHandshake[j - 1].v
          /\ (j > n + 1 /\ (end = 0 \/ j <= end)) => log[j].e \in {"msg", "fail"}

(***************************************************************************)
(* Claims.                                                                  *)
(***************************************************************************)

\* C2: when a step of a daemon operation fails (I/O error, invalid string,
\* unknown logger tag, invalid field type, daemon error, failed handshake),
\* the operation returns an error and the session's socket is None at return.
C2_FailedStepDropsSocket ==
    \A h \in Handlers :
        Failed(oplog[h]) =>
            /\ pc[h] = "return"
            /\ res[h].st = "err"
            /\ res[h].why = Failure(oplog[h]).k
            /\ socket = None

\* a step failed on a stored session after the opcode had been written
C2_Witness ==
    \E h \in Handlers :
        /\ Failed(oplog[h])
        /\ Wrote(oplog[h], "arg")
        /\ Failure(oplog[h]).k \in {"io", "Failed to parse string", "Invalid field type"}
        /\ oplog[h][1].e # "dial"

\* a failure is reported only for a cause on the wire
Justified(en) ==
    CASE en.k \in {"io", "Failed to reconnect"} -> TRUE
      [] en.k = "Invalid magic number" -> en.w[1].n # 1685612911
      [] en.k = "Protocol version mismatch" -> en.w[1].n < 294
      [] en.k = "Invalid Message code" -> en.w[1].m = "Unknown"
      [] en.k = "Invalid field type" -> en.w[1].m = "BadField"
      [] en.k = "Failed to parse string" -> en.w[1].m = "BadString"
      [] en.k = "Daemon error" -> en.w[1].m \in {"Error0", "Error1"}
      [] OTHER -> FALSE

\* C3: the operation that follows a failed operation dials a new socket,
\* completes the handshake before its opcode, reads only from that socket and
\* only words sent for itself, is never left waiting by a daemon that answered,
\* fails only for a cause on the wire, and succeeds with the daemon's answer.
C3_RecoveryAfterFailure ==
    \A h \in Holders :
        (last = "err" /\ oplog[h] # <<>>) =>
            /\ oplog[h][1].e \in {"dial", "fail"}
            /\ HandshakeInOrder(oplog[h])
            /\ \A c \in used[h] : dialer[c] = op[h].id
            /\ Wrote(oplog[h], "opcode") =>
                  /\ HandshakeEnd(oplog[h]) # 0
                  /\ \A c \in used[h] : hsdone[c]
            /\ seen[h] \subseteq {op[h].id}
            /\ Failed(oplog[h]) => Justified(Failure(oplog[h]))
            /\ (pc[h] = "forward_stderr" /\ hs[h] = 0 /\ socket # None) =>
                  ReadMsg(d2c[socket]).st # "block"
            /\ (pc[h] = "response" /\ socket # None) =>
                  ReadOne(ResponseTypes(op[h].name)[Len(acc[h]) + 1], d2c[socket]).st # "block"
            /\ (pc[h] = "return" /\ res[h].st = "ok") => acc[h] = AnswerVals(op[h].name, op[h].arg)

\* the operation after a failed one has succeeded on the socket it dialled
C3_Witness ==
    \E h \in Handlers :
        /\ last = "err"
        /\ pc[h] = "return"
        /\ res[h].st = "ok"
        /\ op[h].name = "query_path_info"
        /\ Len(acc[h]) = 9
        /\ oplog[h][1].e = "dial"

\* C4: at most one daemon operation is in progress: a handler that has begun
\* an operation holds the mutex until the operation has returned, and the
\* steps of two operations are never interleaved on a connection.
C4_OneOperationAtATime ==
    /\ Cardinality(Holders) <= 1
    /\ \A h \in Handlers :
          (pc[h] # "lock" \/ oplog[h] # <<>> \/ hs[h] # 0 \/ hsock[h] # None) => mutex = h
    /\ mutex # 0 => pc[mutex] # "lock"
    /\ \A c \in Conns : \A i, j \in 1..Len(actors[c]) : actors[c][i] = actors[c][j] => i = j

\* a second operation is in the middle of its transaction on the stored socket
\* while another handler waits for the lock
C4_Witness ==
    \E h \in Handlers, g \in Handlers :
        /\ h # g
        /\ pc[h] = "response"
        /\ pc[g] = "lock"
        /\ socket # None
        /\ Len(actors[socket]) = 2

\* C5: an operation cancelled between its opcode and the end of its response
\* leaves no session behind: the socket is None once the mutex is free, and
\* no later operation consumes words sent for another operation.
C5_CancelDropsSession ==
    /\ (last = "cancel_mid" /\ mutex = 0) => socket = None
    /\ \A h \in Holders : seen[h] \subseteq {op[h].id}

\* C6: on a fresh socket the handshake steps happen in the listed order with
\* the listed values; the session stores the socket, features, version and
\* trust flag only after the drain has read Last; no opcode is written on a
\* socket whose handshake has not completed.
C6_HandshakeOrder ==
    /\ \A h \in Handlers :
          /\ (oplog[h] # <<>> /\ oplog[h][1].e = "dial") =>
                /\ HandshakeInOrder(oplog[h])
                /\ (hs[h] = 0 /\ ~Failed(oplog[h])) => HandshakeEnd(oplog[h]) # 0
                /\ Wrote(oplog[h], "opcode") => HandshakeEnd(oplog[h]) # 0
          /\ hs[h] # 0 =>
                /\ socket = None
                /\ hsock[h] # None
                /\ ~hsdone[hsock[h]]
                /\ HandshakeEnd(oplog[h]) = 0
          /\ Wrote(oplog[h], "opcode") => \A c \in used[h] : hsdone[c]
    /\ socket # None =>
          /\ hsdone[socket]
          /\ server_features = <<FeatureText>>
          /\ daemon_version = VersionText

\* a handshake has completed after a logger message and the opcode has gone out
C6_Witness ==
    \E h \in Handlers :
        /\ Len(oplog[h]) = 14
        /\ oplog[h][1].e = "dial"
        /\ oplog[h][12].k = "Next"
        /\ IsLast(oplog[h][13])
        /\ oplog[h][14].k = "opcode"
        /\ is_trusted

\* C7: a wrong magic or a protocol version below 0x0126 fails the handshake at
\* that step: nothing is written after the first magic, the socket is not
\* stored and the operation returns an error; a version >= 0x0126 passes.
C7_MagicAndVersionChecks ==
    \A h \in Handlers :
        /\ \A j \in 1..Len(oplog[h]) :
              /\ (oplog[h][j].e = "r" /\ oplog[h][j].k = "r_magic") => oplog[h][j].w[1].n = 1685612911
              /\ (oplog[h][j].e = "r" /\ oplog[h][j].k = "r_version") => oplog[h][j].w[1].n >= 294
              /\ (oplog[h][j].e = "fail" /\ oplog[h][j].k = "Invalid magic number") =>
                    oplog[h][j].w[1].n # 1685612911
              /\ (oplog[h][j].e = "fail" /\ oplog[h][j].k = "Protocol version mismatch") =>
                    oplog[h][j].w[1].n < 294
        /\ (Failed(oplog[h]) /\ Failure(oplog[h]).k = "Invalid magic number") =>
              /\ [j \in 1..Len(oplog[h]) |-> oplog[h][j].e] = <<"dial", "w", "fail">>
              /\ socket = None /\ pc[h] = "return" /\ res[h].st = "err"
              /\ \A c \in used[h] : ~hsdone[c] /\ dph[c] = 4
        /\ (Failed(oplog[h]) /\ Failure(oplog[h]).k = "Protocol version mismatch") =>
              /\ [j \in 1..Len(oplog[h]) |-> oplog[h][j].e] = <<"dial", "w", "r", "fail">>
              /\ socket = None /\ pc[h] = "return" /\ res[h].st = "err"
              /\ \A c \in used[h] : ~hsdone[c] /\ dph[c] = 4

\* a handshake has failed on a version below the minimum
C7_Witness ==
    \E h \in Handlers :
        /\ Failed(oplog[h])
        /\ Failure(oplog[h]).k = "Protocol version mismatch"
        /\ Failure(oplog[h]).w[1].n = 293

\* the opcode the specification gives each operation
ExpectedOpcode(name) ==
    CASE name = "is_valid_path" -> 1
      [] name = "query_path_info" -> 26
      [] name = "query_path_from_hash_part" -> 29

\* C8: an operation writes its opcode (1, 26, 29), then its one string
\* argument, then drains the logger until Last, then reads its response:
\* no response field before Last, no write once the drain has started.
C8_OperationOrder ==
    \A h \in Handlers :
        LET own == OwnSteps(oplog[h])
            lasts == {j \in 1..Len(own) : IsLast(own[j])}
        IN  \A j \in 1..Len(own) :
              /\ (j = 1 /\ own[j].e # "fail") =>
                    /\ own[j].e = "w" /\ own[j].k = "opcode"
                    /\ Values(own[j].w) = <<ExpectedOpcode(op[h].name)>>
              /\ (j = 2 /\ own[j].e # "fail") =>
                    /\ own[j].e = "w" /\ own[j].k = "arg"
                    /\ own[j].w = WriteString(op[h].arg, op[h].id)
              /\ (j > 2 /\ own[j].e # "fail") => own[j].e \in {"msg", "r"}
              /\ own[j].e = "msg" => \A i \in lasts : j <= i
              /\ own[j].e = "r" => \E i \in lasts : i < j
              /\ own[j].e = "fail" => j = Len(own)

\* an operation has gone through opcode, argument, a logger message, Last and a response field
C8_Witness ==
    \E h \in Handlers :
        LET own == OwnSteps(oplog[h])
        IN  /\ Len(own) = 5
            /\ own[3].e = "msg" /\ own[3].k = "StartActivity"
            /\ IsLast(own[4])
            /\ own[5].e = "r"
            /\ pc[h] = "return"

\* the words of one whole frame, as the daemon sent it
WholeFrame(ws) == ws # <<>> /\ Len(ws) = ws[1].of /\ \A j \in 1..Len(ws) : ws[j].i = j /\ ws[j].m = ws[1].m

\* C9: on an Error message the client consumes the whole Error payload,
\* reads no response field, returns an error carrying the daemon's message
\* and drops the session socket.
C9_DaemonErrorAborts ==
    \A h \in Handlers :
        (Failed(oplog[h]) /\ Failure(oplog[h]).k = "Daemon error") =>
            /\ WholeFrame(Failure(oplog[h]).w)
            /\ Failure(oplog[h]).w[1].m \in {"Error0", "Error1"}
            /\ acc[h] = <<>>
            /\ \A j \in 1..Len(oplog[h]) : ~(oplog[h][j].e = "r" /\ oplog[h][j].k = "response")
            /\ pc[h] = "return"
            /\ res[h] = [st |-> "err", why |-> "Daemon error", msg |-> ErrText, val |-> <<>>]
            /\ socket = None

\* an operation on a stored session has been aborted by an Error message with a trace
C9_Witness ==
    \E h \in Handlers :
        /\ Failed(oplog[h])
        /\ Failure(oplog[h]).k = "Daemon error"
        /\ Failure(oplog[h]).w[1].m = "Error1"
        /\ Wrote(oplog[h], "arg")
        /\ oplog[h][1].e # "dial"

KnownTags == {1684108310, 1668838512, 1869376871, 1398035028, 1398034256, 1381190740, 1634497651}

\* C10: the drain hands control back only on Last (0x616c7473); every other
\* message is consumed whole and the drain goes on; a tag outside the seven
\* known ones fails the drain, aborts the operation and drops the socket.
C10_DrainUntilLast ==
    \A h \in Handlers :
        /\ \A j \in 1..Len(oplog[h]) :
              oplog[h][j].e = "msg" =>
                  /\ oplog[h][j].w[1].n \in KnownTags
                  /\ (oplog[h][j].k = "Last") = (oplog[h][j].w[1].n = 1634497651)
                  /\ WholeFrame(oplog[h][j].w)
                  /\ oplog[h][j].k # "Last" =>
                        (j < Len(oplog[h]) => oplog[h][j + 1].e \in {"msg", "fail"})
        /\ (pc[h] = "forward_stderr" /\ OwnSteps(oplog[h]) # <<>>) =>
              ~IsLast(oplog[h][Len(oplog[h])])
        /\ (pc[h] = "response" \/ (pc[h] = "return" /\ res[h].st = "ok")) =>
              \E j \in 1..Len(OwnSteps(oplog[h])) : IsLast(OwnSteps(oplog[h])[j])
        /\ (Failed(oplog[h]) /\ Failure(oplog[h]).k = "Invalid Message code") =>
              /\ Failure(oplog[h]).w[1].n \notin KnownTags
              /\ pc[h] = "return" /\ res[h].st = "err" /\ socket = None

\* a drain has consumed a nine-word StartActivity message, gone on, and handed over on Last
C10_Witness ==
    \E h \in Handlers :
        /\ pc[h] = "response"
        /\ \E j \in 1..Len(oplog[h]) : oplog[h][j].e = "msg" /\ oplog[h][j].k = "StartActivity"
                                          /\ Len(oplog[h][j].w) = 9

\* C11 as stated: whenever no daemon operation is in progress (before the first
\* operation and between two operations, the previous one having succeeded or
\* failed) the stored socket is None.
C11_NoSocketWhenIdle ==
    (mutex = 0 /\ last \in {"none", "ok", "err"}) => socket = None

\* C11, amended: when no daemon operation is in progress, the stored socket is
\* None before the first operation and after an operation that failed; after an
\* operation that succeeded the socket stays stored, its handshake completed.
C11_SocketKeptAfterSuccess ==
    mutex = 0 =>
        /\ last \in {"none", "err"} => socket = None
        /\ last = "ok" => (socket # None /\ hsdone[socket] /\ dph[socket] = 3)

\* the session is idle after a successful operation
C11_Witness ==
    /\ mutex = 0
    /\ last = "ok"
    /\ socket # None
    /\ nops = 1

(***************************************************************************)
(* The archive a tree stands for, by the grammar of the format.             *)
(***************************************************************************)
\* a token: its length as u64, its bytes, zero bytes up to a multiple of 8
Token(t) == ToLeBytes(Len(t)) \o t \o Zeros(PaddingSize(Len(t)))

\* the name an on-disk name is archived under
Sanitized(macos, name) == strip_case_hack_suffix(macos, name)

\* the names in ascending order of their sanitized names
RECURSIVE SortedNames(_, _)
SortedNames(macos, names) ==
    IF names = {} THEN <<>>
    ELSE LET first == CHOOSE n \in names :
                         \A m \in names : ~BytesLess(Sanitized(macos, m), Sanitized(macos, n))
         IN <<first>> \o SortedNames(macos, names \ {first})

RECURSIVE NodeOf(_, _)
EntryOf(macos, dir, name) ==
    Token(Tok.entry) \o Token(Tok.open) \o Token(Tok.name) \o Token(Sanitized(macos, name))
        \o Token(Tok.node) \o NodeOf(macos, dir.entries[name]) \o Token(Tok.close)

RECURSIVE EntriesOf(_, _, _)
EntriesOf(macos, dir, names) ==
    IF names = <<>> THEN <<>>
    ELSE EntryOf(macos, dir, Head(names)) \o EntriesOf(macos, dir, Tail(names))

NodeOf(macos, node) ==
    IF IsFile(node)
    THEN Token(Tok.open) \o Token(Tok.type) \o Token(Tok.regular)
         \o (IF Executable(node) THEN Token(Tok.executable) \o Token(Tok.empty) ELSE <<>>)
         \o Token(Tok.contents) \o ToLeBytes(node.len) \o [i \in 1..node.len |-> FileByte(i)]
         \o Zeros(PaddingSize(node.len)) \o Token(Tok.close)
    ELSE IF IsSymlink(node)
    THEN Token(Tok.open) \o Token(Tok.type) \o Token(Tok.symlink) \o Token(Tok.target)
         \o Token(node.target) \o Token(Tok.close)
    ELSE Token(Tok.open) \o Token(Tok.type) \o Token(Tok.directory)
         \o EntriesOf(macos, node, SortedNames(macos, DOMAIN node.entries)) \o Token(Tok.close)

ArchiveOf(macos, tree) == Token(Tok.archive) \o NodeOf(macos, tree)

\* every object of the tree is a regular file, a symlink or a directory
RECURSIVE Archivable(_)
Archivable(node) ==
    /\ IsFile(node) \/ IsSymlink(node) \/ IsDir(node)
    /\ IsDir(node) => \A n \in DOMAIN node.entries : Archivable(node.entries[n])

\* the object at a path of on-disk names
RECURSIVE NodeAt(_, _)
NodeAt(node, path) == IF path = <<>> THEN node ELSE NodeAt(node.entries[Head(path)], Tail(path))

\* the paths of the directories of a tree
RECURSIVE DirPaths(_, _)
DirPaths(node, path) ==
    IF ~IsDir(node) THEN {}
    ELSE {path} \cup UNION {DirPaths(node.entries[n], Append(path, n)) : n \in DOMAIN node.entries}

\* the entries dump_path has sent for a directory, in order
EmittedIn(dir) == SelectSeq(d_names, LAMBDA e : e.dir = dir)

StreamIs(stream, archive, finished) == IsPrefix(stream, archive) /\ (finished => stream = archive)

\* C12: for a tree of regular files, symlinks and directories, what dump_path has
\* sent is at every moment a prefix of "nix-archive-1" followed by node(P) of the
\* reference grammar, every token framed, and is the whole of it once dump_path
\* has returned Ok.
C12_ReferenceStream ==
    Archivable(d_tree) =>
        StreamIs(Flatten(d_sent), ArchiveOf(d_macos, d_tree), d_pc = "done")

EachOnceAscending(dir, es) ==
    /\ Len(es) = Cardinality(DOMAIN dir.entries)
    /\ {es[i].name : i \in 1..Len(es)} = DOMAIN dir.entries
    /\ \A i \in 1..Len(es) : es[i].nar_name = Sanitized(d_macos, es[i].name)
    /\ \A i, j \in 1..Len(es) : i < j => BytesLess(es[i].nar_name, es[j].nar_name)

\* C13: once dump_path has returned Ok, whatever the enumeration orders were, each
\* entry of every directory has been emitted exactly once, the entries of a
\* directory in strictly ascending order of their sanitized names, and the stream
\* is the one archive of the tree.
C13_EachEntryOnceAscending ==
    d_pc = "done" =>
        /\ \A dir \in DirPaths(d_tree, <<>>) : EachOnceAscending(NodeAt(d_tree, dir), EmittedIn(dir))
        /\ Flatten(d_sent) = ArchiveOf(d_macos, d_tree)

(***************************************************************************)
(* Framing.                                                                 *)
(***************************************************************************)
\* u64::from_le_bytes of 8 bytes
FromLeBytes(b) == b[1] + 256 * b[2] + 65536 * b[3] + 16777216 * b[4]

\* out is, for each slice in turn: its length L in 8 bytes, its L bytes, and
\* exactly (8 - L mod 8) mod 8 zero bytes, which makes a multiple of 8
RECURSIVE Framed(_, _)
Framed(out, slices) ==
    IF slices = <<>> THEN out = <<>>
    ELSE \E L \in {Len(Head(slices))} : \E pad \in {(8 - (L % 8)) % 8} :
            /\ Len(out) >= 8 + L + pad
            /\ FromLeBytes(SubSeq(out, 1, 8)) = L
            /\ \A i \in 5..8 : out[i] = 0
            /\ SubSeq(out, 9, 8 + L) = Head(slices)
            /\ \A i \in 1..pad : out[8 + L + i] = 0
            /\ (8 + L + pad) % 8 = 0
            /\ Framed(SubSeq(out, 8 + L + pad + 1, Len(out)), Tail(slices))

\* C14: what write_string, write_byte_slices (for each of its slices) and the
\* contents block of a file write for a payload of L bytes is L as 8 bytes
\* little-endian, the L bytes, and exactly (8 - L mod 8) mod 8 zero bytes; the
\* total is a multiple of 8.
C14_PaddingLaw ==
    k_pc = "done" => (Framed(k_out, k_in) /\ Len(k_out) % 8 = 0)

\* each of the three has framed a payload whose length is no multiple of 8, and
\* write_byte_slices two slices
C14_Witness ==
    /\ k_pc = "done"
    /\ Len(k_in[1]) % 8 = 3
    /\ k_fn = "write_byte_slices" => Len(k_in) = 2
    /\ Len(k_out) > 8

(***************************************************************************)
(* Size discipline.                                                         *)
(***************************************************************************)
FileHeaders ==
    { Token(Tok.open) \o Token(Tok.type) \o Token(Tok.regular) \o Token(Tok.contents),
      Token(Tok.open) \o Token(Tok.type) \o Token(Tok.regular) \o Token(Tok.executable)
          \o Token(Tok.empty) \o Token(Tok.contents) }

\* the bytes sent since the header of the file last begun
SinceHeader ==
    Flatten(SubSeq(d_sent, 1 + Least({i \in 1..Len(d_sent) : d_sent[i] \in FileHeaders /\
                                        \A j \in (i + 1)..Len(d_sent) : d_sent[j] \notin FileHeaders}),
                   Len(d_sent)))

\* what follows the header of a file of S bytes: S, the bytes, the padding
FileBlock(S) == ToLeBytes(S) \o Payload(S) \o Zeros((8 - (S % 8)) % 8)

\* the bytes the reads of a file's path have delivered before the last read
RECURSIVE Delivered(_, _, _)
Delivered(reads, path, upto) ==
    IF upto = 0 THEN 0
    ELSE Delivered(reads, path, upto - 1) + (IF reads[upto].path = path THEN reads[upto].n ELSE 0)

ReadErrors == {"Failed to read file", "Unexpected end of file", "Read more bytes than expected"}
FileInHand == d_pc \in {"read", "contents", "padding", "close"} \/ d_err \in ReadErrors

\* the outcome the last read calls for, S being the size in the metadata
LastReadJudged(S, r, before) ==
    /\ (r.n = 0 /\ before < S) => (d_pc = "failed" /\ d_err = "Unexpected end of file")
    /\ (r.n > 0 /\ before + r.n > S) => (d_pc = "failed" /\ d_err = "Read more bytes than expected")
    /\ (r.n = 0 /\ before = S) => d_err \notin ReadErrors
    /\ (r.n > 0 /\ before + r.n <= S) => d_err \notin ReadErrors

SizeDisciplineNow ==
    /\ FileInHand =>
          /\ IsPrefix(SinceHeader, FileBlock(Top.node.len))
          /\ d_pc = "close" => SinceHeader = FileBlock(Top.node.len)
    /\ d_reads # <<>> =>
          LastReadJudged(NodeAt(d_tree, d_reads[Len(d_reads)].path).len, d_reads[Len(d_reads)],
                         Delivered(d_reads, d_reads[Len(d_reads)].path, Len(d_reads) - 1))

SizeDisciplineStep ==
    /\ (d_pc = "close" /\ d_pc' = "loop") =>
          Flatten(d_sent') = Flatten(d_sent) \o Token(Tok.close)
    /\ d_pc = "failed" => (d_pc' = "failed" /\ d_sent' = d_sent /\ d_reads' = d_reads)

\* C15: for a file of metadata size S and any read results: what is sent after
\* the file's header is at every moment a prefix of S as u64, the S bytes of the
\* file and (8 - S mod 8) mod 8 zero bytes, so never more than S content bytes;
\* it is all of that once the reads delivered exactly S bytes before
\* end-of-file, and the closing ")" follows; end-of-file before S bytes fails
\* the dump, as does a read that brings the total above S; after a failure
\* nothing more is sent.
C15_SizeDiscipline == []SizeDisciplineNow /\ [][SizeDisciplineStep]_vars

\* a file of 2 bytes: the first read gave 1 byte, which was sent, the second
\* gave 2 and the dump failed
C15_Witness ==
    /\ d_pc = "failed"
    /\ d_err = "Read more bytes than expected"
    /\ Top.node.len = 2
    /\ Len(d_reads) = 2 /\ d_reads[1].n = 1 /\ d_reads[2].n = 2
    /\ SinceHeader = ToLeBytes(2) \o Payload(1)

(***************************************************************************)
(* Cancellation and backpressure.                                           *)
(***************************************************************************)
\* C16: once the HTTP consumer has dropped its receiver, for a plain and for a
\* range request and wherever the walk is, the producer sends no further chunk
\* (its next send fails and it returns) and reads no further file data beyond
\* the one read that may precede that send.
C16_CancellationStopsProducer ==
    d_mark # <<>> =>
        /\ Len(d_sent) = d_mark.sent
        /\ Len(d_reads) <= d_mark.reads + 1

\* the producer is at a send
SendPending ==
    \/ d_pc \in {"start", "opened", "entry", "size", "contents", "padding", "close", "link"}
    \/ d_pc = "loop" /\ d_stack # <<>> /\ (IsDir(Top.node) \/ IsFile(Top.node))

ProducerStalled == SendPending /\ ~d_txclosed /\ Len(d_tx) = ChannelCapacity

\* C17: no channel ever holds more chunks than its capacity; while the producer
\* is at a send and its channel is full, no step sends a chunk, reads from a
\* file or moves the producer on: it waits until a chunk has been received.
C17_Backpressure ==
    /\ [](Len(d_tx) <= ChannelCapacity /\ Len(d_body) <= ChannelCapacity)
    /\ [][ProducerStalled => (d_sent' = d_sent /\ d_reads' = d_reads /\ d_pc' = d_pc)]_vars

\* the producer has read from a file and waits with the bytes at a full channel
C17_Witness ==
    /\ ProducerStalled
    /\ d_pc = "contents"
    /\ d_buf # <<>>
    /\ ~d_rxclosed

(***************************************************************************)
(* Case hack.                                                               *)
(***************************************************************************)
HasMarker(name) == NeedleAt(name) # {}

\* the tree with the marker and what follows it taken out of every name
RECURSIVE Renamed(_)
Renamed(node) ==
    IF ~IsDir(node) THEN node
    ELSE Dir([n \in {Sanitized(TRUE, m) : m \in DOMAIN node.entries} |->
                 Renamed(node.entries[CHOOSE m \in DOMAIN node.entries : Sanitized(TRUE, m) = n])])

\* an entry with the marker has been emitted under its stripped name, and, if
\* it is a regular file, read under its on-disk name
MarkedEntryEmitted(dir, name) ==
    /\ \E i \in 1..Len(d_names) :
          /\ d_names[i].dir = dir /\ d_names[i].name = name
          /\ d_names[i].nar_name = SubSeq(name, 1, Least(NeedleAt(name)))
    /\ IsFile(NodeAt(d_tree, Append(dir, name))) =>
          \E i \in 1..Len(d_reads) : d_reads[i].path = Append(dir, name)

OrderedByNarName(es) ==
    \A i, j \in 1..Len(es) : i < j => ~BytesLess(es[j].nar_name, es[i].nar_name)

\* C18: on the build that strips the marker, once dump_path has returned Ok
\* every entry whose on-disk name has the marker was emitted under the stripped
\* name, the entries of each directory are in the order of their stripped names,
\* its contents were read under the on-disk name, and the stream is the archive
\* of the tree whose names lack the marker suffix.
C18_CaseHackTransparency ==
    (d_macos /\ d_pc = "done") =>
        /\ \A dir \in DirPaths(d_tree, <<>>) :
              /\ \A name \in DOMAIN NodeAt(d_tree, dir).entries :
                    HasMarker(name) => MarkedEntryEmitted(dir, name)
              /\ OrderedByNarName(EmittedIn(dir))
        /\ Flatten(d_sent) = ArchiveOf(TRUE, Renamed(d_tree))

(***************************************************************************)
(* Fingerprint.                                                             *)
(***************************************************************************)
ValidArgs(a) ==
    /\ StartsWith(a.store_path, StoreDir)
    /\ StartsWith(a.nar_hash, HashPrefix) /\ Len(a.nar_hash) = 59
    /\ \A i \in DOMAIN a.refs : StartsWith(a.refs[i], StoreDir)

\* C19: for valid arguments fingerprint_path returns
\* "1;" S ";" H ";" Z ";" and the references joined by ","; when S lacks the
\* store prefix, H has another prefix or length, or a reference lacks the store
\* prefix (one shorter than the prefix included) it returns an error value: it
\* never aborts.
C19_TotalWithErrors ==
    f_pc = "done" =>
        /\ ValidArgs(f_args) =>
              f_res = FpOk(<<"1", ";">> \o f_args.store_path \o <<";">> \o f_args.nar_hash \o <<";">>
                           \o Decimal(f_args.nar_size) \o <<";">> \o Join(f_args.refs))
        /\ ~ValidArgs(f_args) => f_res.kind = "err"

\* the lists that hold the references of refs in another order
Reordered(refs) ==
    {[i \in DOMAIN refs |-> refs[o[i]]] : o \in Orders(DOMAIN refs)} \ {refs}

OrderSensitive(a, fp) ==
    \A other \in Reordered(a.refs) :
        FingerprintPath(a.store_path, a.nar_hash, a.nar_size, other).val # fp.val

HasComma(r) == \E i \in DOMAIN r : r[i] = ","

\* C20 as stated: for valid arguments, putting the references in another order
\* gives another fingerprint.
C20_OrderSensitive ==
    (f_pc = "done" /\ f_res.kind = "ok") => OrderSensitive(f_args, f_res)

\* C20, amended: for valid arguments whose references contain no ",", putting
\* the references in another order gives another fingerprint.
C20_OrderSensitiveWithoutComma ==
    (f_pc = "done" /\ f_res.kind = "ok" /\ \A i \in DOMAIN f_args.refs : ~HasComma(f_args.refs[i]))
        => OrderSensitive(f_args, f_res)

\* a fingerprint over two different references, neither with a comma
C20_Witness ==
    /\ f_pc = "done" /\ f_res.kind = "ok"
    /\ Len(f_args.refs) = 2 /\ f_args.refs[1] # f_args.refs[2]
    /\ \A i \in DOMAIN f_args.refs : ~HasComma(f_args.refs[i])

(***************************************************************************)
(* Hash encoding.                                                           *)
(***************************************************************************)
\* bit p of a byte string read as a little-endian bit string, 0 beyond it
BitAt(bytes, p) == IF p >= 8 * Len(bytes) THEN 0 ELSE (bytes[p \div 8 + 1] \div (2 ^ (p % 8))) % 2

\* the 5 bits from bit n*5 on
FiveBits(bytes, n) ==
    BitAt(bytes, n * 5) + 2 * BitAt(bytes, n * 5 + 1) + 4 * BitAt(bytes, n * 5 + 2)
        + 8 * BitAt(bytes, n * 5 + 3) + 16 * BitAt(bytes, n * 5 + 4)

Alphabet == <<"0", "1", "2", "3", "4", "5", "6", "7", "8", "9", "a", "b", "c", "d", "f", "g",
              "h", "i", "j", "k", "l", "m", "n", "p", "q", "r", "s", "v", "w", "x", "y", "z">>

\* enc is the encoding of bytes in L characters
EncodingOf(enc, bytes, L) ==
    /\ enc.kind = "ok"
    /\ Len(enc.val) = L
    /\ \A n \in 0..(L - 1) : enc.val[L - n] = Alphabet[FiveBits(bytes, n) + 1]

\* hex decoding by the book: -1 for what is no hex digit
LowerOf(c) == IF InChars(HexUpper, c) THEN HexLower[IndexIn(HexUpper, c)] ELSE c
NibbleOf(c) == IF InChars(<<"0", "1", "2", "3", "4", "5", "6", "7", "8", "9", "a", "b", "c", "d", "e", "f">>, c)
               THEN IndexIn(<<"0", "1", "2", "3", "4", "5", "6", "7", "8", "9", "a", "b", "c", "d", "e", "f">>, c) - 1
               ELSE -1
WellFormedHex(h) == Len(h) % 2 = 0 /\ \A i \in 1..Len(h) : NibbleOf(LowerOf(h[i])) # -1
DecodedHex(h) == [i \in 1..(Len(h) \div 2) |-> 16 * NibbleOf(LowerOf(h[2 * i - 1])) + NibbleOf(LowerOf(h[2 * i]))]

\* C21: to_nix_base32 of N bytes returns L = (N*8 - 1) / 5 + 1 characters of the
\* alphabet, the one at position L-1-n encoding the 5 bits from bit n*5 of the
\* input, bits beyond it being zero; convert_base16_to_nix32 returns that
\* encoding of the hex-decoded input, upper and lower case alike, and an error
\* for an odd length or a character that is no hex digit.
C21_Base32Encoding ==
    k_pc = "done" =>
        /\ k_fn = "to_nix_base32" =>
              EncodingOf(k_out, k_in, (IF Len(k_in) = 0 THEN 0 ELSE (Len(k_in) * 8 - 1) \div 5) + 1)
        /\ k_fn = "convert_base16_to_nix32" =>
              IF WellFormedHex(k_in)
              THEN EncodingOf(k_out, DecodedHex(k_in),
                              (IF Len(k_in) = 0 THEN 0 ELSE ((Len(k_in) \div 2) * 8 - 1) \div 5) + 1)
              ELSE k_out.kind = "err"

\* the hex encoding of a byte string, lower case
RECURSIVE HexEncode(_)
HexEncode(b) ==
    IF b = <<>> THEN <<>>
    ELSE <<(HexDigits \o HexLower)[(Head(b) \div 16) + 1], (HexDigits \o HexLower)[(Head(b) % 16) + 1]>>
         \o HexEncode(Tail(b))

IsHexEncoding(h) ==
    Len(h) % 2 = 0 /\ \A i \in 1..Len(h) : InChars(HexDigits \o HexLower, h[i])

\* from_hex, given the hex encoding of a byte string, has returned that byte string
HexRoundTrip == IsHexEncoding(k_in) => (k_out.kind = "ok" /\ HexEncode(k_out.val) = k_in)

OfAlphabet(enc) == \A i \in 1..Len(enc) : InChars(Alphabet, enc[i])

Described == w_pc = "done" /\ w_req.handler = "narinfo" /\ w_resp.status = 200

\* the fingerprint of the described path: "1;" path ";" hash ";" size ";" references
FingerprintOf(descriptor, refs) ==
    <<"1", ";">> \o descriptor.store_path \o <<";">> \o descriptor.nar_hash \o <<";">>
        \o Decimal(descriptor.nar_size) \o <<";">> \o Join(refs)

\* C23: a descriptor made with k >= 1 configured keys carries exactly k
\* signatures, the i-th being sign(key_i, fingerprint) in configuration order
\* and none taken from the daemon; made with no key it carries exactly the
\* signatures the daemon reported, in their order.
C23_DescriptorSignatures ==
    Described =>
        IF Len(w_cfg) >= 1
        THEN /\ Len(w_resp.info[1].sigs) = Len(w_cfg)
             /\ \A i \in 1..Len(w_cfg) :
                    w_resp.info[1].sigs[i] =
                        SignString(w_cfg[i],
                                   FingerprintOf(w_resp.info[1], w_store.info.val.references))
        ELSE w_resp.info[1].sigs = w_store.info.val.sigs

C23_Witness ==
    /\ Described
    /\ Len(w_cfg) = 2 /\ w_cfg[1] # w_cfg[2]
    /\ Len(w_store.info.val.sigs) = 2
    /\ Len(w_resp.info[1].sigs) = 2

\* C24: every 404 response carries Cache-Control: no-store.
C24_NotFoundNoStore ==
    (w_pc = "done" /\ w_resp.status = 404) => w_resp.cache = cache_control_no_store

\* a request with a Range header reached the range handling of nar::get
AtRange ==
    /\ w_pc = "done" /\ w_req.handler = "nar" /\ w_req.range.some
    /\ w_req.hash.some /\ w_store.path.kind = "some" /\ w_store.info.kind = "some"
    /\ w_store.info.val.hash = GoodHex /\ w_req.narhash = GoodNix32

\* the header is a list of byte ranges, each a-b with a <= b, a- or -n; empty
\* list elements are allowed beside at least one range
WellFormed(header) ==
    /\ header.str /\ header.text = "bytes="
    /\ \E i \in 1..Len(header.specs) : header.specs[i].kind # "empty"
    /\ \A i \in 1..Len(header.specs) :
          /\ header.specs[i].kind \in {"range", "from", "suffix", "empty"}
          /\ header.specs[i].kind = "range" => header.specs[i].a <= header.specs[i].b

\* the bytes [first, last] a well-formed part selects from an archive of `size` bytes
FirstByte(spec, size) == IF spec.kind = "suffix" THEN size - Min(spec.b, size) ELSE spec.a
LastByte(spec, size) == IF spec.kind = "range" THEN Min(spec.b, size - 1) ELSE size - 1
Satisfiable(spec, size) ==
    /\ spec.kind # "empty"
    /\ IF spec.kind = "suffix" THEN spec.b >= 1 ELSE spec.a < size

\* C25: a satisfiable range request is answered 206 with
\* Content-Range: bytes <offset>-<offset+length-1>/<nar_size> and a declared
\* body size equal to the length of the window.
C25_PartialContent ==
    (/\ AtRange /\ WellFormed(w_req.range.val)
     /\ Satisfiable(w_req.range.val.specs[1], w_store.info.val.nar_size)) =>
        /\ w_resp.status = 206
        /\ w_resp.content_range =
              <<"bytes ">>
                \o Decimal(FirstByte(w_req.range.val.specs[1], w_store.info.val.nar_size))
                \o <<"-">>
                \o Decimal(LastByte(w_req.range.val.specs[1], w_store.info.val.nar_size))
                \o <<"/">> \o Decimal(w_store.info.val.nar_size)
        /\ w_resp.size = LastByte(w_req.range.val.specs[1], w_store.info.val.nar_size)
                          - FirstByte(w_req.range.val.specs[1], w_store.info.val.nar_size) + 1

\* C26: a malformed Range header is answered 400, a well-formed range outside
\* the archive 416 with Content-Range: bytes */N; in both cases no producer
\* task is started and no archive byte is sent.
C26_RangeErrors ==
    AtRange =>
        /\ ~WellFormed(w_req.range.val) =>
              w_resp.status = 400 /\ w_spawned = {} /\ w_resp.body = "none"
        /\ (/\ WellFormed(w_req.range.val)
            /\ \A i \in 1..Len(w_req.range.val.specs) :
                  ~Satisfiable(w_req.range.val.specs[i], w_store.info.val.nar_size)) =>
              /\ w_resp.status = 416
              /\ w_resp.content_range = <<"bytes */">> \o Decimal(w_store.info.val.nar_size)
              /\ w_spawned = {} /\ w_resp.body = "none"

\* a well-formed key file: a name, ':' and the base-64 of 64 bytes, white space
\* around the base-64 text ignored
NameOf(file) == SubSeq(file, 1, FirstColon(file) - 1)
SecretOf(file) == Base64Decode(Trim(SubSeq(file, FirstColon(file) + 1, Len(file))))
WellFormedKey(file) ==
    /\ FirstColon(file) # 0
    /\ SecretOf(file).kind = "ok"
    /\ Len(SecretOf(file).val) = 64

\* the loaded key is the key of the file
KeyOfFile(k, file) ==
    IF k.text # <<>> THEN k.text = file
    ELSE k.name = NameOf(file) /\ k.key = SecretOf(file).val

\* C27: loading fails for a key file without ':', with text after the first
\* ':' that is not base-64, or that decodes to other than 64 bytes: load
\* returns an error, never a configuration without the key; well-formed
\* files yield their keys.
C27_KeyLoadingFailsHard ==
    c_st # "load" =>
        IF \A i \in 1..Len(c_files) : WellFormedKey(c_files[i])
        THEN /\ c_st = "ok"
             /\ Len(c_keys) = Len(c_files)
             /\ \A i \in 1..Len(c_files) : KeyOfFile(c_keys[i], c_files[i])
        ELSE c_st = "err"

\* the listing of the archive dump_path writes for a tree: the entries under
\* the names they are archived under, a file executable when the archive
\* marks it so
RECURSIVE ArchiveListing(_, _)
ArchiveListing(macos, node) ==
    IF IsFile(node) THEN RegularEntry(node.len, Executable(node))
    ELSE IF IsSymlink(node) THEN SymlinkEntry(node.target)
    ELSE DirectoryEntry(
             [k \in {Sanitized(macos, n) : n \in DOMAIN node.entries} |->
                 ArchiveListing(macos, node.entries[CHOOSE n \in DOMAIN node.entries :
                                                        Sanitized(macos, n) = k])])

\* C28: for a tree the serializer can serialize, get_nar_list returns the
\* listing of the tree's archive: names, types, sizes, symlink targets and
\* executable flags agree, version is 1 and narOffset is not set.
C28_ListingMatchesArchive ==
    (l_pc = "done" /\ Archivable(l_tree)) =>
        l_root = <<[version |-> 1, root |-> ArchiveListing(l_macos, l_tree)]>>

\* the operation of handler h follows operations that all succeeded
AfterSuccesses(h) == ncancel = 0 /\ last = "ok" /\ oplog[h] # <<>>

\* C29: the first operation of a session dials once and completes the
\* handshake before its opcode; an operation that follows successful ones
\* dials nothing and works on the stored socket, whose handshake is complete;
\* it consumes only words the daemon sent for it, finds the daemon's answer to
\* its own request at the head of the stream, returns that answer, and leaves
\* nothing unread behind.  Two operations that succeed share one connection.
C29_SessionReuse ==
    \A h \in Holders :
        /\ (ncancel = 0 /\ last = "none" /\ oplog[h] # <<>>) =>
              /\ oplog[h][1].e \in {"dial", "fail"}
              /\ HandshakeInOrder(oplog[h])
              /\ Wrote(oplog[h], "opcode") => (HandshakeEnd(oplog[h]) # 0 /\ nconn = 1)
        /\ AfterSuccesses(h) =>
              /\ \A j \in 1..Len(oplog[h]) : oplog[h][j].e # "dial" /\ oplog[h][j].k # "r_magic"
              /\ \A c \in used[h] : hsdone[c] /\ dialer[c] # op[h].id
              /\ Cardinality(used[h]) <= 1
              /\ seen[h] \subseteq {op[h].id}
              /\ nops = 2 => nconn = 1
              /\ (pc[h] = "forward_stderr" /\ socket # None) =>
                    ReadMsg(d2c[socket]).st # "block"
              /\ (pc[h] = "response" /\ socket # None) =>
                    ReadOne(ResponseTypes(op[h].name)[Len(acc[h]) + 1], d2c[socket]).st # "block"
        /\ (ncancel = 0 /\ last \in {"none", "ok"} /\ pc[h] = "return" /\ res[h].st = "ok") =>
              /\ acc[h] = AnswerVals(op[h].name, op[h].arg)
              /\ socket # None /\ d2c[socket] = <<>> /\ sent[socket] = <<>>

\* a second operation has succeeded on the socket the first one dialled
C29_Witness ==
    \E h \in Handlers :
        /\ AfterSuccesses(h)
        /\ nops = 2 /\ nconn = 1
        /\ pc[h] = "return" /\ res[h].st = "ok"
        /\ op[h].name = "query_path_info" /\ Len(acc[h]) = 9

\* C30: is_valid_path returns false exactly when the reply is 0 and true for
\* a reply of 1; query_path_from_hash_part returns None exactly when the reply
\* string is empty and Some(reply) otherwise.
C30_ScalarResults ==
    \A h \in Handlers :
        (pc[h] = "return" /\ res[h].st = "ok") =>
            /\ op[h].name = "is_valid_path" =>
                  /\ res[h].val = <<FALSE>> <=> acc[h][1] = 0
                  /\ acc[h][1] = 1 => res[h].val = <<TRUE>>
            /\ op[h].name = "query_path_from_hash_part" =>
                  /\ res[h].val = <<<<>>>> <=> acc[h][1].len = 0
                  /\ acc[h][1].len # 0 => res[h].val = <<<<acc[h][1]>>>>

\* query_path_from_hash_part has returned None for a hash part the daemon does not know
C30_Witness ==
    \E h \in Handlers :
        /\ pc[h] = "return" /\ res[h].st = "ok"
        /\ op[h].name = "query_path_from_hash_part"
        /\ op[h].arg = UnknownArg
        /\ res[h].val = <<<<>>>>


\* the textual descriptor of a response
TextDescriptor == Described /\ ~w_req.json

\* the pieces of a text between its "\n" characters
Newlines(text) == {i \in 1..Len(text) : text[i] = "\n"}
NthNewline(text, k) ==
    IF k = 0 THEN 0
    ELSE IF k > Cardinality(Newlines(text)) THEN Len(text) + 1
    ELSE CHOOSE i \in Newlines(text) : Cardinality({j \in Newlines(text) : j < i}) = k - 1
SplitLines(text) ==
    [k \in 1..(Cardinality(Newlines(text)) + 1) |->
        SubSeq(text, NthNewline(text, k - 1) + 1, NthNewline(text, k) - 1)]

\* the base-name of a store path: what follows its last "/"
BaseName(path) == SubSeq(path, LastSlash(path) + 1, Len(path))

RECURSIVE SpaceSeparated(_)
SpaceSeparated(names) ==
    IF names = <<>> THEN <<>>
    ELSE IF Len(names) = 1 THEN names[1]
    ELSE names[1] \o <<" ">> \o SpaceSeparated(Tail(names))

\* the lines of the descriptor of path `store_path` with hash part `hash`, made
\* from the path info `info` of the daemon and the signatures `sigs`
DescriptorLines(store_path, hash, info, nar_hash, sigs) ==
    << <<"StorePath: ">> \o store_path,
       <<"URL: ", "nar/">> \o nar_hash \o <<".nar?hash=">> \o hash,
       <<"Compression: ", "none">>,
       <<"FileHash: ">> \o HashPrefix \o nar_hash,
       <<"FileSize: ">> \o Decimal(info.nar_size),
       <<"NarHash: ">> \o HashPrefix \o nar_hash,
       <<"NarSize: ">> \o Decimal(info.nar_size) >>
    \o (IF Len(info.references) >= 1
        THEN << <<"References: ">>
                \o SpaceSeparated([i \in 1..Len(info.references) |-> BaseName(info.references[i])]) >>
        ELSE <<>>)
    \o (IF info.deriver # <<>> THEN << <<"Deriver: ">> \o info.deriver >> ELSE <<>>)
    \o [i \in 1..Len(sigs) |-> <<"Sig: ">> \o SigText(sigs[i])]
    \o (IF info.content_address.some THEN << <<"CA: ">> \o info.content_address.val >> ELSE <<>>)

\* C32: the textual descriptor is the lines StorePath, URL, Compression,
\* FileHash, FileSize, NarHash, NarSize in this order, then References (only
\* with at least one reference: the base-names of the daemon's references in
\* their order, space separated), then Deriver (only when the daemon's deriver
\* is not empty), one Sig line per signature, then CA (only when a content
\* address is present); the lines are joined by single newlines and the text
\* ends with a newline; FileHash equals NarHash, FileSize equals NarSize and
\* URL is nar/<base-32 nar hash>.nar?hash=<hash part>.
C32_TextualDescriptor ==
    TextDescriptor =>
        SplitLines(w_resp.text) =
            DescriptorLines(w_store.path.val, w_req.hash.val, w_store.info.val,
                            ConvertBase16ToNix32(w_store.info.val.hash).val,
                            w_resp.info[1].sigs)
            \o << <<>> >>


\* a nar request that resolves to a path whose hash the daemon reports, and
\* names another hash in its URL
HashMismatch ==
    /\ w_req.handler = "nar" /\ w_req.hash.some
    /\ w_store.path.kind = "some" /\ w_store.info.kind = "some"
    /\ ConvertBase16ToNix32(w_store.info.val.hash).kind = "ok"
    /\ w_req.narhash # ConvertBase16ToNix32(w_store.info.val.hash).val

\* C33: when the narhash of the request URL differs from the base-32 encoding
\* of the hash the daemon reports for the resolved store path, the nar handler
\* answers 500; it starts no producer task and sends no archive byte.
C33_HashMismatch ==
    (w_pc = "done" /\ HashMismatch) =>
        /\ w_resp.status = 500
        /\ w_spawned = {}
        /\ w_resp.body # "stream"


\* the reads of response fields in the log of an operation
IsResponseRead(en) == en.e = "r" /\ en.k = "response"
ResponseReads(log) == SelectSeq(OwnSteps(log), IsResponseRead)

\* the fields of a QueryPathInfo response after the optional flag, as the
\* protocol lists them: deriver, hash, reference list, registration time, nar
\* size, ultimate, signature list, content address
PathInfoFields == <<"num", "str", "str", "list", "num", "num", "num", "list", "str">>

\* the value the words ws hold when they are one whole field of type t
FieldValue(t, ws) == ReadOne(t, ws).val
IsField(t, ws) == ReadOne(t, ws).st = "ok" /\ ReadOne(t, ws).n = Len(ws)

\* the path info made of the fields read after the flag
PathInfoOf(reads) ==
    [deriver |-> FieldValue("str", reads[2].w),
     hash |-> FieldValue("str", reads[3].w),
     references |-> FieldValue("list", reads[4].w),
     registration_time |-> FieldValue("num", reads[5].w),
     nar_size |-> FieldValue("num", reads[6].w),
     ultimate |-> FieldValue("num", reads[7].w) # 0,
     sigs |-> FieldValue("list", reads[8].w),
     content_address |-> IF FieldValue("str", reads[9].w) = EmptyStr THEN <<>>
                         ELSE <<FieldValue("str", reads[9].w)>>]

\* C34: query_path_info reads the optional flag; on 0 it returns an absent
\* path info and reads nothing more of the response; on 1 it reads deriver,
\* hash, reference list, registration time, nar size, ultimate, signature
\* list and content address in this order and returns them unchanged, an
\* empty content address as absent; a failure while reading a field aborts
\* the operation and drops the socket.
C34_PathInfoDecoding ==
    \A h \in Handlers :
        op[h].name = "query_path_info" =>
            /\ \A j \in 1..Len(ResponseReads(oplog[h])) :
                  j <= 9 /\ IsField(PathInfoFields[j], ResponseReads(oplog[h])[j].w)
            /\ (pc[h] = "return" /\ res[h].st = "ok") =>
                  /\ ResponseReads(oplog[h]) # <<>>
                  /\ Values(ResponseReads(oplog[h])[1].w) = <<0>> =>
                        /\ Len(ResponseReads(oplog[h])) = 1
                        /\ res[h].val = << <<>> >>
                  /\ Values(ResponseReads(oplog[h])[1].w) = <<1>> =>
                        /\ Len(ResponseReads(oplog[h])) = 9
                        /\ res[h].val = << <<PathInfoOf(ResponseReads(oplog[h]))>> >>
            /\ (Failed(oplog[h]) /\ \E j \in 1..Len(OwnSteps(oplog[h])) : IsLast(OwnSteps(oplog[h])[j])) =>
                  /\ pc[h] = "return"
                  /\ res[h].st = "err"
                  /\ res[h].val = <<>>
                  /\ socket = None

\* query_path_info has returned the path info of a content-addressed path
\* with two references and a signature
C34_Witness ==
    \E h \in Handlers :
        /\ pc[h] = "return" /\ res[h].st = "ok"
        /\ op[h].name = "query_path_info" /\ op[h].arg = FixedArg
        /\ Len(ResponseReads(oplog[h])) = 9
        /\ res[h].val[1][1].content_address = <<CaText>>
        /\ res[h].val[1][1].references = <<RefText, PathText>>
        /\ res[h].val[1][1].sigs = <<DaemonSigText>>
        /\ ~res[h].val[1][1].ultimate


(***************************************************************************)
(* The walk of dump_path.                                                   *)
(***************************************************************************)
\* the paths of the objects of a tree
RECURSIVE ObjectPaths(_, _)
ObjectPaths(node, path) ==
    {path} \cup (IF IsDir(node)
                 THEN UNION {ObjectPaths(node.entries[n], Append(path, n)) : n \in DOMAIN node.entries}
                 ELSE {})

Pushes(path) == {i \in 1..Len(d_frames) : d_frames[i].e = "push" /\ d_frames[i].path = path}
Pops(path) == {i \in 1..Len(d_frames) : d_frames[i].e = "pop" /\ d_frames[i].path = path}

\* a frame is pushed at most once and popped at most once, after its push; the
\* stack holds the frames pushed and not popped, in the order of their pushes
StackDiscipline ==
    /\ \A p \in ObjectPaths(d_tree, <<>>) :
          /\ Cardinality(Pushes(p)) <= 1 /\ Cardinality(Pops(p)) <= 1
          /\ \A j \in Pops(p) : \E i \in Pushes(p) : i < j
    /\ \A i \in 1..Len(d_frames) : d_frames[i].path \in ObjectPaths(d_tree, <<>>)
    /\ \A k \in 1..Len(d_stack) : Pushes(d_stack[k].path) # {} /\ Pops(d_stack[k].path) = {}
    /\ Len(d_stack) = Cardinality({i \in 1..Len(d_frames) : d_frames[i].e = "push"})
                        - Cardinality({i \in 1..Len(d_frames) : d_frames[i].e = "pop"})

\* at the successful return every object has had its frame and the stack is empty
WalkComplete ==
    /\ d_stack = <<>>
    /\ \A p \in ObjectPaths(d_tree, <<>>) : Cardinality(Pushes(p)) = 1 /\ Cardinality(Pops(p)) = 1

\* the consumer has received every chunk and its next poll returns end-of-stream
EndOfStream ==
    /\ ProducerGone /\ d_tx = <<>>
    /\ d_range # <<>> => d_rpc \in {"done", "panic"} /\ d_body = <<>>

\* C35: for every finite tree and a consumer that keeps receiving, dump_path
\* terminates on its explicit stack: every directory, file and symlink gets
\* exactly one frame, pushed once and popped once, the stack is empty at the
\* end, and the consumer then observes end-of-stream after the last chunk.
C35_WalkTerminates ==
    /\ [](d_tree # <<>> => StackDiscipline)
    /\ []((d_tree # <<>> /\ d_pc = "done") => WalkComplete)
    /\ ([]~d_rxclosed) => <>(d_tree # <<>> => EndOfStream)


(***************************************************************************)
(* Failure of dump_path inside a started body.                              *)
(***************************************************************************)
IsBytes(chunk) == \A i \in 1..Len(chunk) : chunk[i] \in 0..255

\* t is a prefix of s and shorter than s
IsProperPrefix(t, s) == IsPrefix(t, s) /\ Len(t) < Len(s)

\* C36: if dump_path fails after the response has been started, no error item
\* is ever placed on the channel; the producer logs the error and drops its
\* sender, so the consumer receives a proper prefix of the complete archive
\* followed by end-of-stream, and the status and headers of the response are
\* not changed.  At every moment the concatenation of the chunks sent so far
\* is a prefix of the archive of the tree.  (An object of unsupported type
\* stands in the archive where its node would be; nothing of it is ever sent.)
C36_FailureTruncatesBody ==
    /\ [](d_tree # <<>> =>
            /\ \A i \in 1..Len(d_tx) : IsBytes(d_tx[i])
            /\ \A i \in 1..Len(d_body) : IsBytes(d_body[i])
            /\ IsPrefix(Flatten(d_sent), ArchiveOf(d_macos, d_tree))
            /\ (d_pc = "failed" /\ ~d_txclosed) =>
                  /\ d_err # ""
                  /\ IsProperPrefix(Flatten(d_sent), ArchiveOf(d_macos, d_tree)))
    /\ [][d_tree # <<>> => w_resp' = w_resp]_vars
    /\ []((d_tree # <<>> /\ d_pc = "failed") => <>(d_rxclosed \/ EndOfStream))


\* position of the opcode write in the log of an operation (0: not written yet)
OpcodeAt(log) ==
    IF Wrote(log, "opcode")
    THEN CHOOSE j \in 1..Len(log) : log[j].e = "w" /\ log[j].k = "opcode"
    ELSE 0

\* C37: within one operation a dial happens only before the opcode is written.
\* Once the opcode is in the log, no later entry is a dial, the operation has
\* acted on one connection only, and either it has returned an error (its last
\* entry is the failure) or the stored socket is still the connection the
\* opcode was written on; so the response is never read from a connection
\* other than the one that carries the request.
C37_ReconnectOnlyBeforeOpcode ==
    \A h \in Holders :
        LET log == oplog[h]
            at == OpcodeAt(log)
        IN  at # 0 =>
              /\ \A j \in (at + 1)..Len(log) : log[j].e # "dial"
              /\ \A j \in 1..(at - 1) : log[j].k \notin {"arg", "response"}
              /\ Cardinality(used[h]) = 1
              /\ hs[h] = 0 /\ hsock[h] = None
              /\ \/ Failed(log) /\ pc[h] = "return" /\ res[h].st = "err"
                 \/ ~Failed(log) /\ socket # None /\ used[h] = {socket}

\* an operation that dialled has written its opcode and its argument on the new
\* connection and has read the first word of the response from the same one
C37_Witness ==
    \E h \in Handlers :
        /\ oplog[h] # <<>> /\ oplog[h][1].e = "dial"
        /\ OpcodeAt(oplog[h]) > 1
        /\ Wrote(oplog[h], "arg")
        /\ pc[h] = "response" /\ Len(acc[h]) >= 1
        /\ socket # None /\ used[h] = {socket} /\ dialer[socket] = op[h].id

\* the download of task h is stalled: dump_path waits in a send on a full channel
Stalled(h) ==
    /\ "producer" \in g_tasks[h] /\ g_left[h] > 0
    /\ ~HasRoom(IF g_req[h].range THEN g_mid[h] ELSE g_body[h])

\* positions at which a handler holds the guard: inside the daemon operation,
\* and in the arms of a match whose scrutinee locked
Holding == OpSites \cup {"n_arms2", "i_arms"}

\* C38: a handler never waits for the daemon mutex while it holds the guard;
\* the guard is alive only during one daemon operation and the match on its
\* result, so it is gone before the next acquisition, before the producer is
\* spawned, while the producer or the range task runs and while chunks are on
\* their way to the HTTP consumer.  A handler that waits for the lock is granted
\* it as soon as no handler is inside a daemon operation, also while another
\* request's download is stalled.
C38_NoLockAcrossAwait ==
    \A h \in Handlers :
        /\ g_pc[h] \in LockSites => mutex # h
        /\ mutex = h => g_pc[h] \in Holding
        /\ g_pc[h] = "n_spawn" => mutex # h
        /\ (g_tasks[h] # {} \/ g_body[h] # <<>> \/ g_mid[h] # <<>>) =>
              (mutex # h /\ g_pc[h] = "returned")
        /\ (g_pc[h] \in LockSites /\ \A h2 \in Handlers : g_pc[h2] \notin Holding) =>
              ENABLED LockGranted(h)

\* the download of one request is stalled on a full channel while the handler
\* of another request holds the guard of its second acquisition
C38_Witness ==
    \E h, h2 \in Handlers :
        /\ Stalled(h) /\ g_pc[h] = "returned"
        /\ g_pc[h2] = "n_op2" /\ mutex = h2

\* the complete strings of a byte stream, read frame by frame from offset p: a
\* length in 8 bytes, the bytes, the padding; an unfinished frame at the end is left out
RECURSIVE StringsFrom(_, _)
FrameAt(b, p, L) ==
    IF Len(b) < p + 8 + L + ((8 - (L % 8)) % 8) THEN <<>>
    ELSE <<SubSeq(b, p + 9, p + 8 + L)>> \o StringsFrom(b, p + 8 + L + ((8 - (L % 8)) % 8))

StringsFrom(b, p) ==
    IF Len(b) < p + 8 THEN <<>> ELSE FrameAt(b, p, FromLeBytes(SubSeq(b, p + 1, p + 8)))

\* the strings dump_path has sent so far
SentStrings == StringsFrom(Flatten(d_sent), 0)

\* string i is data (a name, a link target, file contents) and not a token: it
\* follows one of the tokens name, target, contents
RECURSIVE IsData(_, _)
IsData(strs, i) ==
    /\ i > 1
    /\ strs[i - 1] \in {Tok.name, Tok.target, Tok.contents}
    /\ ~IsData(strs, i - 1)

IsToken(strs, i, tok) == strs[i] = tok /\ ~IsData(strs, i)

\* "(" tokens and ")" tokens among the first k strings
Opens(strs, k) == Cardinality({i \in 1..k : IsToken(strs, i, Tok.open)})
Closes(strs, k) == Cardinality({i \in 1..k : IsToken(strs, i, Tok.close)})

\* never more ")" than "(", at every token of the stream
WellNested(strs) == \A k \in 0..Len(strs) : Closes(strs, k) <= Opens(strs, k)

\* frame k of the stack is a directory whose "( type directory" has been sent
HeaderSent(k) ==
    /\ IsDir(d_stack[k].node)
    /\ ~d_stack[k].first_child \/ (k = Len(d_stack) /\ d_pc = "opened")

\* frame k of the stack is a directory one of whose entries is being emitted:
\* the "(" of the entry has been sent and its ")" has not
EntryOpen(k) ==
    /\ IsDir(d_stack[k].node)
    /\ ~d_stack[k].first_child
    /\ ~(k = Len(d_stack) /\ d_pc = "entry")

\* the top frame is a regular file whose "(" has been sent and whose ")" has not
FileOpen == d_stack # <<>> /\ IsFile(Top.node) /\ d_pc \in {"size", "read", "contents", "padding", "close"}

Walking == d_pc \notin {"start", "failed"}

\* the "(" not closed yet, counted on the stream
Unclosed == Opens(SentStrings, Len(SentStrings)) - Closes(SentStrings, Len(SentStrings))

\* every token "entry" follows "directory" or the ")" of the entry before it, and
\* what follows "directory" is ")" or "entry"
EntriesClosedInTurn(strs) ==
    \A i \in 2..Len(strs) :
        /\ IsToken(strs, i, Tok.entry) =>
              (IsToken(strs, i - 1, Tok.directory) \/ IsToken(strs, i - 1, Tok.close))
        /\ (IsToken(strs, i - 1, Tok.directory) /\ ~IsData(strs, i)) =>
              strs[i] \in {Tok.close, Tok.entry}

\* C39 as stated: the number of unclosed "(" is one per directory frame on the
\* stack plus one per entry of such a directory that is being emitted.
C39_UnclosedByStackAlone ==
    Walking =>
        Unclosed = Cardinality({k \in 1..Len(d_stack) : IsDir(d_stack[k].node)})
                     + Cardinality({k \in 1..Len(d_stack) : EntryOpen(k)})

\* C39: the output is well nested: at every token sent there are never more ")"
\* than "("; while dump_path walks, the number of unclosed "(" is one per
\* directory frame whose header has been sent, plus one per entry being emitted,
\* plus one for a regular file between its header and its ")"; when dump_path
\* returns success the counts are equal; an empty directory is emitted as
\* ( type directory ), and the ")" of an entry comes before the next entry of
\* its directory and before the directory's own ")".
C39_WellNested ==
    /\ WellNested(SentStrings)
    /\ Walking =>
          Unclosed = Cardinality({k \in 1..Len(d_stack) : HeaderSent(k)})
                       + Cardinality({k \in 1..Len(d_stack) : EntryOpen(k)})
                       + (IF FileOpen THEN 1 ELSE 0)
    /\ d_pc = "done" => Unclosed = 0
    /\ (d_pc = "done" /\ d_tree = Dir(NoEntries)) =>
          SentStrings = <<Tok.archive, Tok.open, Tok.type, Tok.directory, Tok.close>>
    /\ EntriesClosedInTurn(SentStrings)

\* dump_path is inside a regular file of the root directory, after another
\* entry: the directory, the entry and the file are open
C39_Witness ==
    /\ Len(d_stack) = 2 /\ FileOpen /\ d_pc = "close"
    /\ Closes(SentStrings, Len(SentStrings)) >= 1
    /\ Unclosed = 3

\* the bytes the writers are specified to take: 8 for a number, 8 + len +
\* (8 - len mod 8) mod 8 for a string, 8 and the frames of its elements for a list
RECURSIVE FramesSize(_)
StringSize(str) == 8 + Len(str) + ((8 - (Len(str) % 8)) % 8)
FramesSize(list) == IF list = <<>> THEN 0 ELSE StringSize(Head(list)) + FramesSize(Tail(list))
WireSize == CASE k_fn = "num" -> 8
              [] k_fn = "string" -> StringSize(k_in.val)
              [] k_fn = "string_list" -> 8 + FramesSize(k_in.val)

\* C40: reading back what write_num, write_string or write_string_list wrote
\* returns the value written, consumes exactly the bytes written (8; 8 + len +
\* padding; 8 plus the frames of the elements) and leaves the bytes that follow
\* on the stream.
C40_WireRoundTrip ==
    /\ k_pc \in {"written", "done"} => Len(k_out.stream) = WireSize + Len(k_in.rest)
    /\ k_pc = "done" =>
          /\ k_out.got[1].st = "ok"
          /\ k_out.got[1].val = k_in.val
          /\ k_out.got[1].n = WireSize
          /\ SubSeq(k_out.stream, k_out.got[1].n + 1, Len(k_out.stream)) = k_in.rest

\* a list of two strings, one of them needing padding, has been read back with
\* bytes following it on the stream
C40_Witness ==
    /\ k_pc = "done" /\ k_fn = "string_list"
    /\ Len(k_in.val) = 2 /\ Len(k_in.val[1]) = 2 /\ Len(k_in.val[2]) = 8
    /\ k_in.rest # <<>>
    /\ k_out.got[1].n = 40

====
